---- MODULE Spec2Model ----
(***************************************************************************)
(* Model of the selection-aware render walk of ruskel / ripdoc:            *)
(* RenderState::render drives render_item depth-first over the rustdoc     *)
(* item graph under three policies (selection, path filter, visibility).   *)
(* The recursion of the Rust code is an explicit call stack: one frame per *)
(* active render_module / render_struct / render_enum / render_use /       *)
(* render_impl call, one action per loop iteration or return.              *)
(*                                                                         *)
(* Text is modelled as a sequence of tokens, one per emitted fragment      *)
(* (doc comment, derive annotation, declaration, block head, block end).   *)
(* A `::`-separated path string is the sequence of its components.         *)
(***************************************************************************)
EXTENDS Integers, Sequences, FiniteSets, TLC

VARIABLES crate_data, config, filter_matched, stack, output, pc, result, calls,
          format, raw_output, stage, returned, verdicts,
          search_index, search_options, search_results, search_pc,
          request, env, resolved_version, effects, fetched, fetch_pc

\* The state of the render walk (RenderState and its call stack), and the
\* number of the render call on this Renderer.
walk == <<crate_data, config, filter_matched, stack, output, pc, result, calls>>

\* The state of Renderer::render after the walk: the chosen RenderFormat, the
\* text passed from step to step, the position in the pipeline, the value
\* returned, and the replies of the external formatter so far.
pipeline == <<format, raw_output, stage, returned, verdicts>>

\* SearchIndex::search: the entries of the index, the SearchOptions, the
\* results returned.
searching == <<search_index, search_options, search_results, search_pc>>

\* fetch_registry_crate: its arguments, what it finds around it (cargo home,
\* registry cache, crates.io, cargo), the version it settled on, the
\* commands and requests it sent, and what it returned.
registry == <<request, env, resolved_version, effects, fetched, fetch_pc>>

\* Everything outside the walk.
aux == <<pipeline, searching, registry>>

vars == <<walk, aux>>

\* Option::None for an identifier slot.
NoId == 0 - 1

\* Longest call stack the walk may build (frames); only cyclic imports reach it.
MaxDepth == 6

\* Number of render calls made on one Renderer.
MaxCalls == 2

(***************************************************************************)
(* rustdoc_types::Item, flattened: every record has every field, a field   *)
(* that the kind does not use keeps its default.                           *)
(***************************************************************************)
NoTrait == [some |-> FALSE, path |-> <<>>, id |-> NoId]

ItemDefaults ==
    [kind |-> "Function", name |-> <<>>, vis |-> "public", docs |-> FALSE,
     items |-> <<>>, skind |-> "Unit", fields |-> <<>>, impls |-> <<>>,
     variants |-> <<>>, trait_ |-> NoTrait, for_id |-> NoId, for_path |-> <<>>,
     is_synthetic |-> FALSE, blanket |-> FALSE,
     is_glob |-> FALSE, use_id |-> NoId, source |-> <<>>, use_name |-> ""]

Item(r) ==
    [f \in DOMAIN ItemDefaults |-> IF f \in DOMAIN r THEN r[f] ELSE ItemDefaults[f]]

TraitRef(path, id) == [some |-> TRUE, path |-> path, id |-> id]

(***************************************************************************)
(* The crates the walk is run on.                                          *)
(***************************************************************************)
\* A crate of types, implementation blocks and traits, without imports:
\*   pub mod k { pub mod m { struct S {a, b}; impl S; impl fmt::Display for S;
\*     impl Clone for S; struct T(..); enum E {A, B(..)} } fn helper;
\*     fn private_function; trait Tr { fn paint; } }
TypesIndex ==
    [i \in 0..22 |->
       CASE i = 0 -> Item([kind |-> "Module", name |-> <<"k">>, docs |-> TRUE,
                           items |-> <<1, 10, 11, 21>>])
         [] i = 1 -> Item([kind |-> "Module", name |-> <<"m">>, docs |-> TRUE,
                           items |-> <<2, 5, 6, 7>>])
         [] i = 2 -> Item([kind |-> "Struct", name |-> <<"S">>, docs |-> TRUE,
                           skind |-> "Plain", fields |-> <<3, 4>>,
                           impls |-> <<5, 8, 9>>])
         [] i = 3 -> Item([kind |-> "StructField", name |-> <<"a">>])
         [] i = 4 -> Item([kind |-> "StructField", name |-> <<"b">>, vis |-> "default"])
         [] i = 5 -> Item([kind |-> "Impl", for_id |-> 2, for_path |-> <<"S">>,
                           items |-> <<12, 13>>])
         [] i = 6 -> Item([kind |-> "Struct", name |-> <<"T">>, docs |-> TRUE,
                           skind |-> "Tuple", fields |-> <<16, 17>>])
         [] i = 7 -> Item([kind |-> "Enum", name |-> <<"E">>,
                           variants |-> <<18, 19>>])
         [] i = 8 -> Item([kind |-> "Impl", for_id |-> 2, for_path |-> <<"S">>,
                           trait_ |-> TraitRef(<<"fmt", "Display">>, NoId),
                           items |-> <<14>>])
         [] i = 9 -> Item([kind |-> "Impl", for_id |-> 2, for_path |-> <<"S">>,
                           trait_ |-> TraitRef(<<"Clone">>, NoId),
                           items |-> <<15>>])
         [] i = 10 -> Item([kind |-> "Function", name |-> <<"helper">>, docs |-> TRUE])
         [] i = 11 -> Item([kind |-> "Function", name |-> <<"private_function">>,
                            vis |-> "default"])
         [] i = 12 -> Item([kind |-> "Function", name |-> <<"render">>, docs |-> TRUE])
         [] i = 13 -> Item([kind |-> "Function", name |-> <<"hidden">>,
                            vis |-> "default"])
         [] i = 14 -> Item([kind |-> "Function", name |-> <<"fmt">>, vis |-> "default"])
         [] i = 15 -> Item([kind |-> "Function", name |-> <<"clone">>, vis |-> "default"])
         [] i = 16 -> Item([kind |-> "StructField", name |-> <<"0">>])
         [] i = 17 -> Item([kind |-> "StructField", name |-> <<"1">>, vis |-> "default"])
         [] i = 18 -> Item([kind |-> "Variant", name |-> <<"A">>, vis |-> "default"])
         [] i = 19 -> Item([kind |-> "Variant", name |-> <<"B">>, vis |-> "default",
                            skind |-> "Tuple", fields |-> <<20>>])
         [] i = 20 -> Item([kind |-> "StructField", name |-> <<"0">>, vis |-> "default"])
         [] i = 21 -> Item([kind |-> "Trait", name |-> <<"Tr">>, docs |-> TRUE,
                            items |-> <<22>>])
         [] i = 22 -> Item([kind |-> "Function", name |-> <<"paint">>, vis |-> "default"])]

\* A crate of imports:
\*   pub mod k { pub mod a { pub struct Foo; fn secret; } pub use a::Foo;
\*     pub use a::*; pub use ext::Thing; use a::secret;
\*     pub use ext::Thing as Other; mod hidden { pub struct Bar; }
\*     pub use hidden::Bar; }
ImportsIndex ==
    [i \in 0..11 |->
       CASE i = 0 -> Item([kind |-> "Module", name |-> <<"k">>,
                           items |-> <<1, 4, 5, 6, 7, 8, 9, 11>>])
         [] i = 1 -> Item([kind |-> "Module", name |-> <<"a">>, docs |-> TRUE,
                           items |-> <<2, 3>>])
         [] i = 2 -> Item([kind |-> "Struct", name |-> <<"Foo">>, docs |-> TRUE])
         [] i = 3 -> Item([kind |-> "Function", name |-> <<"secret">>,
                           vis |-> "default"])
         [] i = 4 -> Item([kind |-> "Use", use_id |-> 2, source |-> <<"a", "Foo">>,
                           use_name |-> "Foo"])
         [] i = 5 -> Item([kind |-> "Use", is_glob |-> TRUE, use_id |-> 1,
                           source |-> <<"a">>, use_name |-> "a"])
         [] i = 6 -> Item([kind |-> "Use", source |-> <<"ext", "Thing">>,
                           use_name |-> "Thing"])
         [] i = 7 -> Item([kind |-> "Use", vis |-> "default", use_id |-> 3,
                           source |-> <<"a", "secret">>, use_name |-> "secret"])
         [] i = 8 -> Item([kind |-> "Use", source |-> <<"ext", "Thing">>,
                           use_name |-> "Other"])
         [] i = 9 -> Item([kind |-> "Module", name |-> <<"hidden">>,
                           vis |-> "default", items |-> <<10>>])
         [] i = 10 -> Item([kind |-> "Struct", name |-> <<"Bar">>])
         [] i = 11 -> Item([kind |-> "Use", use_id |-> 10,
                            source |-> <<"hidden", "Bar">>, use_name |-> "Bar"])]

\* Two modules that wildcard-import each other:
\*   pub mod k { pub mod a { pub use super::b::*; } pub mod b { pub use super::a::*; } }
CycleIndex ==
    [i \in 0..4 |->
       CASE i = 0 -> Item([kind |-> "Module", name |-> <<"k">>, items |-> <<1, 2>>])
         [] i = 1 -> Item([kind |-> "Module", name |-> <<"a">>, items |-> <<3>>])
         [] i = 2 -> Item([kind |-> "Module", name |-> <<"b">>, items |-> <<4>>])
         [] i = 3 -> Item([kind |-> "Use", is_glob |-> TRUE, use_id |-> 2,
                           source |-> <<"super", "b">>, use_name |-> "b"])
         [] i = 4 -> Item([kind |-> "Use", is_glob |-> TRUE, use_id |-> 1,
                           source |-> <<"super", "a">>, use_name |-> "a"])]

\* A crate of implementation blocks behind a re-export:
\*   pub mod k { mod inner { pub(crate) struct W { x }; trait Hidden { fn h; }
\*     pub trait Shown { fn s; } impl Send for W (synthetic);
\*     impl Unpin for W (synthetic); impl<T> Into<T> for W (blanket);
\*     impl Hidden for W; impl Shown for W; impl W { fn secret; } }
\*     pub mod api { pub use inner::W; } }
ImplsIndex ==
    [i \in 0..19 |->
       CASE i = 0 -> Item([kind |-> "Module", name |-> <<"k">>, items |-> <<1, 2>>])
         [] i = 1 -> Item([kind |-> "Module", name |-> <<"inner">>,
                           vis |-> "default", items |-> <<3, 4, 5>>])
         [] i = 2 -> Item([kind |-> "Module", name |-> <<"api">>, items |-> <<6>>])
         [] i = 3 -> Item([kind |-> "Struct", name |-> <<"W">>, vis |-> "crate",
                           docs |-> TRUE, skind |-> "Plain", fields |-> <<7>>,
                           impls |-> <<8, 9, 10, 11, 12, 13>>])
         [] i = 4 -> Item([kind |-> "Trait", name |-> <<"Hidden">>,
                           vis |-> "default", items |-> <<14>>])
         [] i = 5 -> Item([kind |-> "Trait", name |-> <<"Shown">>, items |-> <<15>>])
         [] i = 6 -> Item([kind |-> "Use", use_id |-> 3,
                           source |-> <<"inner", "W">>, use_name |-> "W"])
         [] i = 7 -> Item([kind |-> "StructField", name |-> <<"x">>, vis |-> "default"])
         [] i = 8 -> Item([kind |-> "Impl", for_id |-> 3, for_path |-> <<"W">>,
                           trait_ |-> TraitRef(<<"Send">>, NoId),
                           is_synthetic |-> TRUE])
         [] i = 9 -> Item([kind |-> "Impl", for_id |-> 3, for_path |-> <<"W">>,
                           trait_ |-> TraitRef(<<"Unpin">>, NoId),
                           is_synthetic |-> TRUE])
         [] i = 10 -> Item([kind |-> "Impl", for_id |-> 3, for_path |-> <<"W">>,
                            trait_ |-> TraitRef(<<"Into">>, NoId),
                            blanket |-> TRUE, items |-> <<16>>])
         [] i = 11 -> Item([kind |-> "Impl", for_id |-> 3, for_path |-> <<"W">>,
                            trait_ |-> TraitRef(<<"Hidden">>, 4), items |-> <<17>>])
         [] i = 12 -> Item([kind |-> "Impl", for_id |-> 3, for_path |-> <<"W">>,
                            trait_ |-> TraitRef(<<"Shown">>, 5), items |-> <<18>>])
         [] i = 13 -> Item([kind |-> "Impl", for_id |-> 3, for_path |-> <<"W">>,
                            docs |-> TRUE, items |-> <<19>>])
         [] i = 14 -> Item([kind |-> "Function", name |-> <<"h">>, vis |-> "default"])
         [] i = 15 -> Item([kind |-> "Function", name |-> <<"s">>, vis |-> "default"])
         [] i = 16 -> Item([kind |-> "Function", name |-> <<"into">>, vis |-> "default"])
         [] i = 17 -> Item([kind |-> "Function", name |-> <<"h">>, vis |-> "default"])
         [] i = 18 -> Item([kind |-> "Function", name |-> <<"s">>, vis |-> "default"])
         [] i = 19 -> Item([kind |-> "Function", name |-> <<"secret">>,
                            vis |-> "default"])]

\* A crate with a module inside a module of the same name, and one item of
\* each single-fragment kind:
\*   pub mod k { pub mod m { pub mod m { pub fn f; } pub const C; pub static ST;
\*     fn g; } pub type A; }
NestedIndex ==
    [i \in 0..7 |->
       CASE i = 0 -> Item([kind |-> "Module", name |-> <<"k">>, docs |-> TRUE,
                           items |-> <<1, 6>>])
         [] i = 1 -> Item([kind |-> "Module", name |-> <<"m">>, docs |-> TRUE,
                           items |-> <<2, 4, 5, 7>>])
         [] i = 2 -> Item([kind |-> "Module", name |-> <<"m">>, docs |-> TRUE,
                           items |-> <<3>>])
         [] i = 3 -> Item([kind |-> "Function", name |-> <<"f">>])
         [] i = 4 -> Item([kind |-> "Constant", name |-> <<"C">>])
         [] i = 5 -> Item([kind |-> "Static", name |-> <<"ST">>])
         [] i = 6 -> Item([kind |-> "TypeAlias", name |-> <<"A">>])
         [] i = 7 -> Item([kind |-> "Function", name |-> <<"g">>, vis |-> "default"])]

\* A graph that is not well formed: a field slot that holds a function, an
\* implementation slot that holds a function, a variant slot that holds a
\* field, and a module child that is missing from the index:
\*   pub mod k { struct P { <fn> }; struct Q; (impls: <fn>) enum R { <field> }
\*     <missing> }
BrokenIndex ==
    [i \in 0..6 |->
       CASE i = 0 -> Item([kind |-> "Module", name |-> <<"k">>,
                           items |-> <<1, 2, 3, 9>>])
         [] i = 1 -> Item([kind |-> "Struct", name |-> <<"P">>, skind |-> "Plain",
                           fields |-> <<4>>])
         [] i = 2 -> Item([kind |-> "Struct", name |-> <<"Q">>, impls |-> <<5>>])
         [] i = 3 -> Item([kind |-> "Enum", name |-> <<"R">>, variants |-> <<6>>])
         [] i = 4 -> Item([kind |-> "Function", name |-> <<"f">>])
         [] i = 5 -> Item([kind |-> "Function", name |-> <<"g">>])
         [] i = 6 -> Item([kind |-> "StructField", name |-> <<"x">>])]

Crates ==
    [types |-> [name |-> "types", root |-> 0, index |-> TypesIndex],
     imports |-> [name |-> "imports", root |-> 0, index |-> ImportsIndex],
     cycle |-> [name |-> "cycle", root |-> 0, index |-> CycleIndex],
     impls |-> [name |-> "impls", root |-> 0, index |-> ImplsIndex],
     nested |-> [name |-> "nested", root |-> 0, index |-> NestedIndex],
     broken |-> [name |-> "broken", root |-> 0, index |-> BrokenIndex]]

CrateNames == DOMAIN Crates

\* rustdoc_types::Crate: the index and the root of the crate being rendered.
Index == crate_data.index
Root == crate_data.root
Ids == DOMAIN Index

(***************************************************************************)
(* Text fragments.                                                         *)
(***************************************************************************)
Tok(t, id) == [t |-> t, id |-> id, ents |-> <<>>]
TokE(t, id, ents) == [t |-> t, id |-> id, ents |-> ents]

\* crateutils::docs: the `///` lines of an item.
docs(id) == IF Index[id].docs THEN <<Tok("doc", id)>> ELSE <<>>

ReservedWords == {"async", "type", "match"}

\* crateutils::render_name: the name, raw-escaped when it is a keyword.
EscapeWord(n) ==
    CASE n = "async" -> "r#async"
      [] n = "type" -> "r#type"
      [] n = "match" -> "r#match"
      [] OTHER -> n

render_name(id) ==
    IF Index[id].name = <<>> THEN <<"?">>
    ELSE [i \in 1..Len(Index[id].name) |-> EscapeWord(Index[id].name[i])]

\* utils::ppush on component sequences: "" is the empty sequence.
ppush(path_prefix, name) == path_prefix \o name

starts_with(s, p) == Len(p) <= Len(s) /\ SubSeq(s, 1, Len(p)) = p

\* Iterator::skip(1)
Skip1(s) == IF s = <<>> THEN <<>> ELSE Tail(s)

(***************************************************************************)
(* RenderSelection and the selection queries of RenderState.               *)
(***************************************************************************)
NoSelection == [some |-> FALSE, matches |-> {}, context |-> {}, expanded |-> {}]

\* Variant of RenderSelection::new that stores the context as it was passed.
RenderSelectionNew_as_passed(matches, context, expanded) ==
    [some |-> TRUE, matches |-> matches, context |-> context,
     expanded |-> expanded]

RenderSelectionNew(matches, context, expanded) ==
    [some |-> TRUE, matches |-> matches, context |-> context \cup matches,
     expanded |-> expanded]

\* Variant of selection_context_contains that lets every item through.
selection_context_contains_any(id) == TRUE

selection_context_contains(id) ==
    IF config.selection.some THEN id \in config.selection.context ELSE TRUE

selection_matches(id) ==
    IF config.selection.some THEN id \in config.selection.matches ELSE FALSE

selection_expands(id) ==
    IF config.selection.some THEN id \in config.selection.expanded ELSE TRUE

selection_allows_child(parent_id, child_id) ==
    IF ~config.selection.some THEN TRUE
    ELSE selection_expands(parent_id) \/ selection_context_contains(child_id)

SelectionView(id, expands_when_inactive) ==
    [active |-> config.selection.some,
     expands_self |-> IF config.selection.some THEN selection_expands(id)
                      ELSE expands_when_inactive]

includes_child(view, child_id) ==
    IF ~view.active THEN TRUE
    ELSE view.expands_self \/ selection_context_contains(child_id)

force_children(view) == view.active /\ view.expands_self

is_visible(id) == config.render_private_items \/ Index[id].vis = "public"

(***************************************************************************)
(* The path filter.                                                        *)
(***************************************************************************)
filter_match(path_prefix, id) ==
    IF Index[id].name = <<>> THEN "Prefix"
    ELSE LET item_components == Skip1(ppush(path_prefix, Index[id].name))
             filter_components == config.filter
         IN  IF filter_components = item_components THEN "Hit"
             ELSE IF starts_with(filter_components, item_components) THEN "Prefix"
             ELSE IF starts_with(item_components, filter_components) THEN "Suffix"
             ELSE "Miss"

\* Variant of should_filter that also takes an ancestor of the target as a match.
should_filter_prefix_marks(path_prefix, id, fm) ==
    IF id = Root THEN <<FALSE, fm>>
    ELSE IF config.filter = <<>> THEN <<FALSE, fm>>
    ELSE LET m == filter_match(path_prefix, id)
         IN  CASE m \in {"Hit", "Prefix"} -> <<FALSE, TRUE>>
               [] m = "Suffix" -> <<FALSE, fm>>
               [] OTHER -> <<TRUE, fm>>

\* should_filter returns <<filtered, filter_matched'>>.
should_filter(path_prefix, id, fm) ==
    IF id = Root THEN <<FALSE, fm>>
    ELSE IF config.filter = <<>> THEN <<FALSE, fm>>
    ELSE LET m == filter_match(path_prefix, id)
         IN  CASE m = "Hit" -> <<FALSE, TRUE>>
               [] m \in {"Prefix", "Suffix"} -> <<FALSE, fm>>
               [] OTHER -> <<TRUE, fm>>

should_module_doc(path_prefix, id) ==
    IF config.filter = <<>> THEN TRUE
    ELSE filter_match(path_prefix, id) \in {"Hit", "Suffix"}

(***************************************************************************)
(* Implementation blocks: the derive allow-list.                           *)
(***************************************************************************)
DERIVE_TRAITS ==
    {"Clone", "Copy", "Debug", "Default", "Display", "Eq", "Error", "FromStr",
     "Hash", "Ord", "PartialEq", "PartialOrd", "Send", "StructuralPartialEq",
     "Sync", "Serialize", "Deserialize"}

\* str::split("::").last()
LastSegment(path) == IF path = <<>> THEN "" ELSE path[Len(path)]

\* The whole path string is one allow-listed name.
PathIsDeriveName(path) == Len(path) = 1 /\ path[1] \in DERIVE_TRAITS

should_render_impl(impl_id, render_auto_impls) ==
    LET impl_ == Index[impl_id]
    IN  IF impl_.is_synthetic /\ ~render_auto_impls THEN FALSE
        ELSE IF impl_.trait_.some /\ PathIsDeriveName(impl_.trait_.path) THEN FALSE
        ELSE IF impl_.blanket THEN FALSE
        ELSE TRUE

RECURSIVE collect_inline_traits(_)
collect_inline_traits(impls) ==
    IF impls = <<>> THEN <<>>
    ELSE LET impl_ == Index[Head(impls)]
             rest == collect_inline_traits(Tail(impls))
         IN  IF impl_.is_synthetic THEN rest
             ELSE IF impl_.trait_.some
                     /\ LastSegment(impl_.trait_.path) \in DERIVE_TRAITS
                  THEN <<LastSegment(impl_.trait_.path)>> \o rest
             ELSE rest

derive_line(id, impls) ==
    LET inline_traits == collect_inline_traits(impls)
    IN  IF inline_traits # <<>> THEN <<TokE("derive", id, inline_traits)>> ELSE <<>>

(***************************************************************************)
(* Struct-like items.                                                      *)
(***************************************************************************)
\* One rendered positional entry: the placeholder `_`, or visibility and type
\* of the field `id`.
Masked == [masked |-> TRUE, id |-> NoId]
Shown(id) == [masked |-> FALSE, id |-> id]

render_struct_unit(id) == <<Tok("decl", id)>>

RECURSIVE tuple_entries(_, _)
tuple_entries(view, fields) ==
    IF fields = <<>> THEN <<>>
    ELSE LET f == Head(fields)
             rest == tuple_entries(view, Tail(fields))
         IN  IF f = NoId THEN rest
             ELSE IF ~includes_child(view, f) THEN rest
             ELSE IF ~is_visible(f) THEN <<Masked>> \o rest
             ELSE <<Shown(f)>> \o rest

\* render_struct_tuple: <<>> stands for None.
render_struct_tuple(id, view, fields) ==
    LET fields_str == tuple_entries(view, fields)
    IN  IF view.expands_self \/ fields_str # <<>>
        THEN <<TokE("decl", id, fields_str)>>
        ELSE <<>>

\* Variant of render_struct_field without the visibility test.
render_struct_field_any_visibility(field_id, force) ==
    IF config.selection.some /\ ~force /\ ~selection_context_contains(field_id)
    THEN <<>>
    ELSE docs(field_id) \o <<Tok("decl", field_id)>>

render_struct_field(field_id, force) ==
    IF config.selection.some /\ ~force /\ ~selection_context_contains(field_id)
    THEN <<>>
    ELSE IF ~(force \/ is_visible(field_id)) THEN <<>>
    ELSE docs(field_id) \o <<Tok("decl", field_id)>>

RECURSIVE plain_fields(_, _)
plain_fields(fields, force) ==
    IF fields = <<>> THEN <<>>
    ELSE render_struct_field(Head(fields), force) \o plain_fields(Tail(fields), force)

render_struct_plain(id, view, fields) ==
    <<Tok("open", id)>> \o plain_fields(fields, force_children(view))
        \o <<Tok("close", id)>>

\* render_struct up to its loop over the implementation blocks.
render_struct_head(id) ==
    LET item == Index[id]
        ctx_selection == SelectionView(id, FALSE)
    IN  docs(id) \o derive_line(id, item.impls)
          \o (CASE item.skind = "Unit" -> render_struct_unit(id)
                [] item.skind = "Tuple" ->
                     render_struct_tuple(id, ctx_selection, item.fields)
                [] OTHER -> render_struct_plain(id, ctx_selection, item.fields))

(***************************************************************************)
(* Enum-like items.                                                        *)
(***************************************************************************)
RECURSIVE variant_tuple_entries(_, _, _)
variant_tuple_entries(view, fields, include_all_fields) ==
    IF fields = <<>> THEN <<>>
    ELSE LET f == Head(fields)
             rest == variant_tuple_entries(view, Tail(fields), include_all_fields)
         IN  IF f = NoId THEN rest
             ELSE IF view.active /\ ~include_all_fields
                     /\ ~selection_context_contains(f) THEN rest
             ELSE <<Shown(f)>> \o rest

RECURSIVE variant_struct_fields(_, _, _)
variant_struct_fields(view, fields, include_all_fields) ==
    IF fields = <<>> THEN <<>>
    ELSE LET f == Head(fields)
             rest == variant_struct_fields(view, Tail(fields), include_all_fields)
         IN  IF ~view.active \/ include_all_fields \/ selection_context_contains(f)
             THEN render_struct_field(f, include_all_fields \/ ~view.active) \o rest
             ELSE rest

render_enum_variant(view, id, include_all_fields) ==
    LET variant == Index[id]
    IN  docs(id)
          \o (CASE variant.skind = "Unit" -> <<Tok("decl", id)>>
                [] variant.skind = "Tuple" ->
                     <<TokE("decl", id,
                            variant_tuple_entries(view, variant.fields,
                                                  include_all_fields))>>
                [] OTHER ->
                     <<Tok("open", id)>>
                       \o variant_struct_fields(view, variant.fields,
                                                include_all_fields)
                       \o <<Tok("close", id)>>)

should_render_variant(view, variant_id) ==
    ~view.active \/ view.expands_self \/ includes_child(view, variant_id)

include_variant_fields(view, variant_id) ==
    view.expands_self \/ ~view.active \/ selection_matches(variant_id)

RECURSIVE enum_variants(_, _)
enum_variants(view, variants) ==
    IF variants = <<>> THEN <<>>
    ELSE LET v == Head(variants)
             rest == enum_variants(view, Tail(variants))
         IN  IF ~should_render_variant(view, v) THEN rest
             ELSE render_enum_variant(view, v, include_variant_fields(view, v))
                    \o rest

\* render_enum up to its loop over the implementation blocks.
render_enum_head(id) ==
    LET item == Index[id]
        ctx_selection == SelectionView(id, TRUE)
    IN  docs(id) \o derive_line(id, item.impls) \o <<Tok("open", id)>>
          \o enum_variants(ctx_selection, item.variants)
          \o <<Tok("close", id)>>

(***************************************************************************)
(* Traits.                                                                 *)
(***************************************************************************)
render_trait_item(view, id) ==
    IF ~includes_child(view, id) THEN <<>>
    ELSE CASE Index[id].kind = "Function" -> docs(id) \o <<Tok("decl", id)>>
           [] Index[id].kind \in {"AssocConst", "AssocType"} -> <<Tok("decl", id)>>
           [] OTHER -> <<>>

RECURSIVE trait_items(_, _)
trait_items(view, items) ==
    IF items = <<>> THEN <<>>
    ELSE LET rest == trait_items(view, Tail(items))
         IN  IF includes_child(view, Head(items))
             THEN render_trait_item(view, Head(items)) \o rest
             ELSE rest

render_trait(id) ==
    IF ~selection_context_contains(id) THEN <<>>
    ELSE LET selection == SelectionView(id, TRUE)
         IN  docs(id) \o <<Tok("open", id)>>
               \o trait_items(selection, Index[id].items)
               \o <<Tok("close", id)>>

(***************************************************************************)
(* Single-fragment items.                                                  *)
(***************************************************************************)
render_function_item(id) == docs(id) \o <<Tok("decl", id)>>
render_constant_item(id) == docs(id) \o <<Tok("decl", id)>>
render_type_alias_item(id) == docs(id) \o <<Tok("decl", id)>>
render_macro(id) == docs(id) \o <<Tok("decl", id)>>
render_proc_macro(id) == docs(id) \o <<Tok("decl", id)>>

(***************************************************************************)
(* Imports.                                                                *)
(***************************************************************************)
InIndex(id) == id \in Ids

VisibleInIndex(id) == InIndex(id) /\ is_visible(id)

resolve_alias_use(id) ==
    IF Index[id].use_name # LastSegment(Index[id].source)
    THEN [shape |-> "Alias", items |-> <<>>]
    ELSE [shape |-> "Simple", items |-> <<>>]

resolve_glob_use(id) ==
    LET source_id == Index[id].use_id
    IN  IF source_id = NoId THEN [shape |-> "Simple", items |-> <<>>]
        ELSE IF ~InIndex(source_id) THEN [shape |-> "Simple", items |-> <<>>]
        ELSE CASE Index[source_id].kind = "Module" ->
                    [shape |-> "Items",
                     items |-> SelectSeq(Index[source_id].items, VisibleInIndex)]
               [] Index[source_id].kind = "Enum" ->
                    [shape |-> "Items",
                     items |-> SelectSeq(Index[source_id].variants, VisibleInIndex)]
               [] OTHER -> [shape |-> "Simple", items |-> <<>>]

resolve_use(id) ==
    IF Index[id].is_glob THEN resolve_glob_use(id)
    ELSE IF Index[id].use_id # NoId /\ InIndex(Index[id].use_id)
         THEN [shape |-> "Items", items |-> <<Index[id].use_id>>]
         ELSE resolve_alias_use(id)

(***************************************************************************)
(* Panics: must_get on an identifier that is not in the index, extract_item *)
(* on an item of another kind.                                             *)
(***************************************************************************)
must_get_ok(id) == id \in Ids

\* must_get followed by extract_item!(.., kind).
extract_item_ok(id, kind) == must_get_ok(id) /\ Index[id].kind = kind

\* Variant of collect_inline_traits_panics that extracts a trait.
collect_inline_traits_panics_as_trait(impls) ==
    \E i \in 1..Len(impls) : ~extract_item_ok(impls[i], "Trait")

collect_inline_traits_panics(impls) ==
    \E i \in 1..Len(impls) : ~extract_item_ok(impls[i], "Impl")

render_struct_tuple_panics(view, fields) ==
    \E i \in 1..Len(fields) :
       /\ fields[i] # NoId
       /\ includes_child(view, fields[i])
       /\ ~extract_item_ok(fields[i], "StructField")

render_struct_field_panics(field_id, force) ==
    IF ~must_get_ok(field_id) THEN TRUE
    ELSE IF config.selection.some /\ ~force /\ ~selection_context_contains(field_id)
    THEN FALSE
    ELSE IF ~(force \/ is_visible(field_id)) THEN FALSE
    ELSE Index[field_id].kind # "StructField"

render_struct_panics(id) ==
    LET item == Index[id]
        ctx_selection == SelectionView(id, FALSE)
    IN  \/ collect_inline_traits_panics(item.impls)
        \/ /\ item.skind = "Tuple"
           /\ render_struct_tuple_panics(ctx_selection, item.fields)
        \/ /\ item.skind = "Plain"
           /\ \E i \in 1..Len(item.fields) :
                 render_struct_field_panics(item.fields[i],
                                            force_children(ctx_selection))

render_enum_variant_panics(view, id, include_all_fields) ==
    IF Index[id].kind # "Variant" THEN TRUE
    ELSE LET variant == Index[id]
         IN  \/ /\ variant.skind = "Tuple"
                /\ \E i \in 1..Len(variant.fields) :
                      /\ variant.fields[i] # NoId
                      /\ ~(view.active /\ ~include_all_fields
                             /\ ~selection_context_contains(variant.fields[i]))
                      /\ ~extract_item_ok(variant.fields[i], "StructField")
             \/ /\ variant.skind = "Plain"
                /\ \E i \in 1..Len(variant.fields) :
                      /\ \/ ~view.active \/ include_all_fields
                         \/ selection_context_contains(variant.fields[i])
                      /\ render_struct_field_panics(variant.fields[i],
                                                    include_all_fields \/ ~view.active)

render_enum_panics(id) ==
    LET item == Index[id]
        ctx_selection == SelectionView(id, TRUE)
    IN  \/ collect_inline_traits_panics(item.impls)
        \/ \E i \in 1..Len(item.variants) :
              /\ should_render_variant(ctx_selection, item.variants[i])
              /\ \/ ~must_get_ok(item.variants[i])
                 \/ render_enum_variant_panics(
                        ctx_selection, item.variants[i],
                        include_variant_fields(ctx_selection, item.variants[i]))

render_trait_panics(id) ==
    /\ selection_context_contains(id)
    /\ \E i \in 1..Len(Index[id].items) :
          /\ includes_child(SelectionView(id, TRUE), Index[id].items[i])
          /\ ~must_get_ok(Index[id].items[i])

(***************************************************************************)
(* The call stack.  A frame is one active call of a renderer that loops    *)
(* over children: `out` is its local output string, `idx` the next child,  *)
(* `force` the force_private flag of the render_item call that dispatched  *)
(* to it, `prefix` the path_prefix its children are rendered under.        *)
(***************************************************************************)
Frame(fn, id, prefix, force, out, targets) ==
    [fn |-> fn, id |-> id, prefix |-> prefix, force |-> force, idx |-> 1,
     out |-> out, has_content |-> FALSE, targets |-> targets]

\* Outcome of entering a callee: it returned `out` at once, or it is now an
\* active frame; `fm` is filter_matched afterwards.
Ret(out, fm) == [k |-> "ret", out |-> out, fm |-> fm, frame |-> Frame("", NoId, <<>>, FALSE, <<>>, <<>>)]
Call(frame, fm) == [k |-> "call", out |-> <<>>, fm |-> fm, frame |-> frame]
\* The callee panicked.
Panic(fm) == [k |-> "panic", out |-> <<>>, fm |-> fm, frame |-> Frame("", NoId, <<>>, FALSE, <<>>, <<>>)]

render_module_head(path_prefix, id) ==
    <<Tok("open", id)>>
      \o (IF should_module_doc(path_prefix, id) /\ Index[id].docs
          THEN <<Tok("moddoc", id)>> ELSE <<>>)

\* render_item up to the first child it recurses into.
render_item(path_prefix, id, force_private, fm) ==
    IF ~selection_context_contains(id) THEN Ret(<<>>, fm)
    ELSE LET sf == should_filter(path_prefix, id, fm)
             kind == Index[id].kind
             Leaf(out) ==
                 Ret(IF ~force_private /\ ~is_visible(id) THEN <<>> ELSE out, sf[2])
         IN  IF sf[1] THEN Ret(<<>>, sf[2])
             ELSE CASE kind = "Module" ->
                         LET new_prefix == ppush(path_prefix, render_name(id))
                         IN  Call(Frame("render_module", id, new_prefix, force_private,
                                        render_module_head(new_prefix, id), <<>>),
                                  sf[2])
                    [] kind = "Struct" ->
                         IF ~selection_context_contains(id) THEN Leaf(<<>>)
                         ELSE IF render_struct_panics(id) THEN Panic(sf[2])
                         ELSE Call(Frame("render_struct", id, path_prefix,
                                         force_private, render_struct_head(id), <<>>),
                                   sf[2])
                    [] kind = "Enum" ->
                         IF ~selection_context_contains(id) THEN Leaf(<<>>)
                         ELSE IF render_enum_panics(id) THEN Panic(sf[2])
                         ELSE Call(Frame("render_enum", id, path_prefix,
                                         force_private, render_enum_head(id), <<>>),
                                   sf[2])
                    [] kind = "Trait" ->
                         IF render_trait_panics(id) THEN Panic(sf[2])
                         ELSE Leaf(render_trait(id))
                    [] kind = "Use" ->
                         LET resolution == resolve_use(id)
                         IN  CASE resolution.shape = "Items" ->
                                    Call(Frame("render_use", id, path_prefix,
                                               force_private, <<>>, resolution.items),
                                         sf[2])
                               [] resolution.shape = "Alias" ->
                                    Leaf(docs(id) \o <<Tok("use_alias", id)>>)
                               [] OTHER -> Leaf(docs(id) \o <<Tok("use", id)>>)
                    [] kind = "Function" -> Leaf(render_function_item(id))
                    [] kind = "Constant" -> Leaf(render_constant_item(id))
                    [] kind = "TypeAlias" -> Leaf(render_type_alias_item(id))
                    [] kind = "Macro" -> Leaf(render_macro(id))
                    [] kind = "ProcMacro" -> Leaf(render_proc_macro(id))
                    [] OTHER -> Leaf(<<>>)

\* Variant of expand_children that always expands.
expand_children_always(impl_id) == TRUE

\* render_impl: whether the selection lets every member through.
expand_children(impl_id) ==
    LET parent_expanded ==
            IF Index[impl_id].for_id # NoId
            THEN selection_expands(Index[impl_id].for_id) ELSE FALSE
    IN  ~config.selection.some \/ selection_expands(impl_id) \/ parent_expanded

\* crateutils::render_type of the implementing type, as path components.
render_type_for(impl_id) == Index[impl_id].for_path

\* render_impl up to its loop over the members.
render_impl(path_prefix, impl_id, fm) ==
    LET impl_ == Index[impl_id]
    IN  IF ~selection_context_contains(impl_id) THEN Ret(<<>>, fm)
        ELSE IF impl_.trait_.some /\ InIndex(impl_.trait_.id)
                /\ ~is_visible(impl_.trait_.id) THEN Ret(<<>>, fm)
        ELSE Call(Frame("render_impl", impl_id,
                        ppush(path_prefix, render_type_for(impl_id)), FALSE,
                        docs(impl_id) \o <<Tok("open", impl_id)>>, <<>>),
                  fm)

\* render_impl_item returns <<text, filter_matched'>>.
render_impl_item(path_prefix, id, include_all, fm) ==
    IF ~include_all /\ ~selection_context_contains(id) THEN <<<<>>, fm>>
    ELSE LET sf == should_filter(path_prefix, id, fm)
         IN  IF sf[1] THEN <<<<>>, sf[2]>>
             ELSE IF Index[id].kind \in {"Function", "Constant", "TypeAlias"}
                  THEN <<docs(id) \o <<Tok("decl", id)>>, sf[2]>>
                  ELSE IF Index[id].kind = "AssocType"
                  THEN <<<<Tok("decl", id)>>, sf[2]>>
                  ELSE <<<<>>, sf[2]>>

(***************************************************************************)
(* Control transfer.                                                       *)
(***************************************************************************)
Depth == Len(stack)
Top == stack[Depth]

\* The caller's frame with its loop index advanced.
Advanced == [stack EXCEPT ![Depth].idx = @ + 1]

\* A callee returns `val` to the frame on top of `stk` (or to render, when
\* the stack is empty).
Deliver(stk, val) ==
    IF stk = <<>>
    THEN /\ stack' = <<>>
         /\ output' = val
         /\ pc' = "walked"
    ELSE /\ stack' = [stk EXCEPT ![Len(stk)].out = @ \o val]
         /\ output' = output
         /\ pc' = pc

\* Continue after entering a callee from the frame on top of `stk`.  The
\* native stack is finite: a call beyond MaxDepth frames aborts the process.
Enter(stk, r) ==
    /\ filter_matched' = r.fm
    /\ IF r.k = "ret" THEN Deliver(stk, r.out)
       ELSE IF r.k = "panic"
            THEN /\ stack' = stk
                 /\ output' = output
                 /\ pc' = "panic"
       ELSE IF Len(stk) < MaxDepth
            THEN /\ stack' = Append(stk, r.frame)
                 /\ output' = output
                 /\ pc' = pc
            ELSE /\ stack' = stk
                 /\ output' = output
                 /\ pc' = "overflow"

\* The visibility gate at the end of render_item, applied to the text of the
\* frame that render_item dispatched to.
ItemResult(frame, text) ==
    IF ~frame.force /\ ~is_visible(frame.id) THEN <<>> ELSE text

Popped == SubSeq(stack, 1, Depth - 1)

(***************************************************************************)
(* Actions.                                                                *)
(***************************************************************************)
\* Renderer::render -> RenderState::new, RenderState::render: start the walk
\* at the root module.
Render ==
    /\ pc = "ready"
    /\ LET r == IF must_get_ok(Root) THEN render_item(<<>>, Root, FALSE, FALSE)
                ELSE Panic(FALSE)
       IN  /\ filter_matched' = r.fm
           /\ IF r.k = "ret"
              THEN /\ stack' = <<>> /\ output' = r.out /\ pc' = "walked"
              ELSE IF r.k = "panic"
              THEN /\ stack' = <<>> /\ output' = output /\ pc' = "panic"
              ELSE /\ stack' = <<r.frame>> /\ output' = output /\ pc' = "walking"
    /\ UNCHANGED <<aux, calls, crate_data, config, result>>

Walking == pc = "walking" /\ stack # <<>>

\* render_module: one iteration of the loop over module.items.
RenderModuleStep ==
    /\ Walking
    /\ Top.fn = "render_module"
    /\ Top.idx <= Len(Index[Top.id].items)
    /\ Enter(Advanced,
             IF must_get_ok(Index[Top.id].items[Top.idx])
             THEN render_item(Top.prefix, Index[Top.id].items[Top.idx], FALSE,
                              filter_matched)
             ELSE Panic(filter_matched))
    /\ UNCHANGED <<aux, calls, crate_data, config, result>>

\* render_module: the loop is over; close the block and return.
RenderModuleReturn ==
    /\ Walking
    /\ Top.fn = "render_module"
    /\ Top.idx > Len(Index[Top.id].items)
    /\ Deliver(Popped, ItemResult(Top, Top.out \o <<Tok("close", Top.id)>>))
    /\ UNCHANGED <<aux, calls, crate_data, config, filter_matched, result>>

\* render_struct / render_enum: one iteration of the loop over impls.
TypeImplStep(fn) ==
    /\ Walking
    /\ Top.fn = fn
    /\ Top.idx <= Len(Index[Top.id].impls)
    /\ LET impl_id == Index[Top.id].impls[Top.idx]
       IN  IF ~extract_item_ok(impl_id, "Impl")
           THEN Enter(Advanced, Panic(filter_matched))
           ELSE IF should_render_impl(impl_id, config.render_auto_impls)
              /\ selection_allows_child(Top.id, impl_id)
           THEN Enter(Advanced, render_impl(Top.prefix, impl_id, filter_matched))
           ELSE Enter(Advanced, Ret(<<>>, filter_matched))
    /\ UNCHANGED <<aux, calls, crate_data, config, result>>

TypeReturn(fn) ==
    /\ Walking
    /\ Top.fn = fn
    /\ Top.idx > Len(Index[Top.id].impls)
    /\ Deliver(Popped, ItemResult(Top, Top.out))
    /\ UNCHANGED <<aux, calls, crate_data, config, filter_matched, result>>

RenderStructStep == TypeImplStep("render_struct")
RenderStructReturn == TypeReturn("render_struct")
RenderEnumStep == TypeImplStep("render_enum")
RenderEnumReturn == TypeReturn("render_enum")

\* render_impl: one iteration of the loop over impl.items.
RenderImplStep ==
    /\ Walking
    /\ Top.fn = "render_impl"
    /\ Top.idx <= Len(Index[Top.id].items)
    /\ LET item_id == Index[Top.id].items[Top.idx]
           is_trait_impl == Index[Top.id].trait_.some
           expand == expand_children(Top.id)
           rendered ==
               IF InIndex(item_id)
                  /\ (~config.selection.some \/ expand
                        \/ selection_context_contains(item_id))
                  /\ (is_trait_impl \/ is_visible(item_id))
               THEN render_impl_item(Top.prefix, item_id, expand, filter_matched)
               ELSE <<<<>>, filter_matched>>
       IN  /\ filter_matched' = rendered[2]
           /\ stack' = [stack EXCEPT
                          ![Depth].idx = @ + 1,
                          ![Depth].out = @ \o rendered[1],
                          ![Depth].has_content = @ \/ rendered[1] # <<>>]
    /\ UNCHANGED <<aux, calls, crate_data, config, output, pc, result>>

\* Variant of the end of render_impl that returns the block as it stands.
RenderImplReturn_keeps_empty ==
    /\ Walking
    /\ Top.fn = "render_impl"
    /\ Top.idx > Len(Index[Top.id].items)
    /\ Deliver(Popped, Top.out \o <<Tok("close", Top.id)>>)
    /\ UNCHANGED <<aux, calls, crate_data, config, filter_matched, result>>

\* render_impl: the loop is over; a block without content is dropped.
RenderImplReturn ==
    /\ Walking
    /\ Top.fn = "render_impl"
    /\ Top.idx > Len(Index[Top.id].items)
    /\ Deliver(Popped, IF ~Top.has_content THEN <<>>
                       ELSE Top.out \o <<Tok("close", Top.id)>>)
    /\ UNCHANGED <<aux, calls, crate_data, config, filter_matched, result>>

\* Variant of the render_use loop that does not force visibility.
RenderUseStep_unforced ==
    /\ Walking
    /\ Top.fn = "render_use"
    /\ Top.idx <= Len(Top.targets)
    /\ LET item_id == Top.targets[Top.idx]
       IN  IF InIndex(item_id)
           THEN Enter(Advanced, render_item(Top.prefix, item_id, FALSE, filter_matched))
           ELSE Enter(Advanced, Ret(<<>>, filter_matched))
    /\ UNCHANGED <<aux, calls, crate_data, config, result>>

\* render_use: one iteration of the loop over the resolved items.
RenderUseStep ==
    /\ Walking
    /\ Top.fn = "render_use"
    /\ Top.idx <= Len(Top.targets)
    /\ LET item_id == Top.targets[Top.idx]
       IN  IF InIndex(item_id)
           THEN Enter(Advanced, render_item(Top.prefix, item_id, TRUE, filter_matched))
           ELSE Enter(Advanced, Ret(<<>>, filter_matched))
    /\ UNCHANGED <<aux, calls, crate_data, config, result>>

RenderUseReturn ==
    /\ Walking
    /\ Top.fn = "render_use"
    /\ Top.idx > Len(Top.targets)
    /\ Deliver(Popped, ItemResult(Top, Top.out))
    /\ UNCHANGED <<aux, calls, crate_data, config, filter_matched, result>>

FilterNotMatched(filter) == [ok |-> FALSE, err |-> "FilterNotMatched",
                             filter |-> filter, text |-> <<>>]
Ok(text) == [ok |-> TRUE, err |-> "", filter |-> <<>>, text |-> text]

\* RenderState::render after the walk: the filter check, then the result.
Finish ==
    /\ pc = "walked"
    /\ pc' = "done"
    /\ result' = IF config.filter # <<>> /\ ~filter_matched
                 THEN FilterNotMatched(config.filter)
                 ELSE Ok(output)
    /\ UNCHANGED <<aux, calls, crate_data, config, filter_matched, stack, output>>

\* Variant of a further call that takes over the flag of the call before.
RenderAgain_keeps_flag ==
    /\ pc = "done"
    /\ calls < MaxCalls
    /\ calls' = calls + 1
    /\ pc' = "ready"
    /\ stack' = <<>>
    /\ output' = <<>>
    /\ result' = Ok(<<>>)
    /\ UNCHANGED <<aux, crate_data, config, filter_matched>>

\* Renderer::render called once more on the same Renderer and crate:
\* RenderState::new builds a new state.
RenderAgain ==
    /\ pc = "done"
    /\ calls < MaxCalls
    /\ calls' = calls + 1
    /\ pc' = "ready"
    /\ filter_matched' = FALSE
    /\ stack' = <<>>
    /\ output' = <<>>
    /\ result' = Ok(<<>>)
    /\ UNCHANGED <<aux, crate_data, config>>

Next ==
    \/ Render
    \/ RenderModuleStep
    \/ RenderModuleReturn
    \/ RenderStructStep
    \/ RenderStructReturn
    \/ RenderEnumStep
    \/ RenderEnumReturn
    \/ RenderImplStep
    \/ RenderImplReturn
    \/ RenderUseStep
    \/ RenderUseReturn
    \/ Finish
    \/ RenderAgain

(***************************************************************************)
(* Initial states: a Renderer built with with_filter, with_selection,      *)
(* with_private_items and with_auto_impls, and the crate handed to render. *)
(***************************************************************************)
Range(seq) == {seq[i] : i \in 1..Len(seq)}

Filters ==
    [types |-> {<<>>, <<"m">>, <<"m", "S">>, <<"m", "S", "render">>,
                <<"Tr", "paint">>, <<"m", "E", "A">>, <<"m", "S", "a">>,
                <<"m", "T">>, <<"helper">>, <<"nope">>, <<"m", "nope">>},
     imports |-> {<<>>, <<"a">>, <<"a", "Foo">>, <<"Foo">>, <<"Bar">>,
                  <<"hidden", "Bar">>, <<"nope">>},
     cycle |-> {<<>>, <<"a">>},
     impls |-> {<<>>, <<"api", "W">>, <<"inner", "W">>, <<"api", "W", "s">>},
     nested |-> {<<>>, <<"m">>, <<"m", "m">>, <<"m", "m", "f">>, <<"m", "ST">>,
                 <<"A">>},
     broken |-> {<<>>, <<"Q">>}]

ContainerKinds == {"Module", "Struct", "Enum", "Trait", "Impl"}

\* The item that lists `id` as a member; an implementation block belongs to
\* its type.
ParentOf(ix, id) ==
    IF \E p \in DOMAIN ix : id \in Range(ix[p].impls)
    THEN CHOOSE p \in DOMAIN ix : id \in Range(ix[p].impls)
    ELSE CHOOSE p \in DOMAIN ix :
             id \in Range(ix[p].items) \cup Range(ix[p].fields)
                      \cup Range(ix[p].variants)

RECURSIVE AncestorsOf(_, _, _)
AncestorsOf(ix, root, id) ==
    IF id = root THEN {root}
    ELSE {id} \cup AncestorsOf(ix, root, ParentOf(ix, id))

\* search::build_render_selection for a single search hit.
build_render_selection(ix, root, hit, expand_containers) ==
    RenderSelectionNew({hit}, AncestorsOf(ix, root, hit),
                       IF expand_containers /\ ix[hit].kind \in ContainerKinds
                       THEN {hit} ELSE {})

\* The selections a Renderer is given: none, the selection of a search hit,
\* and triples passed to RenderSelection::new directly (a context without the
\* ancestors; every container on the path expanded).
Selections(c) ==
    LET ix == Crates[c].index
        root == Crates[c].root
    IN  {NoSelection}
          \cup {build_render_selection(ix, root, hit, e) :
                  hit \in DOMAIN ix, e \in BOOLEAN}
          \cup {RenderSelectionNew({hit}, {}, {}) : hit \in DOMAIN ix}
          \cup {RenderSelectionNew({hit}, AncestorsOf(ix, root, hit),
                                   {a \in AncestorsOf(ix, root, hit) :
                                      ix[a].kind \in ContainerKinds}) :
                  hit \in DOMAIN ix}

\* The pipeline after the walk is not part of this specification.
PipelineIdle ==
    /\ format = "Rust"
    /\ raw_output = <<>>
    /\ stage = "idle"
    /\ returned = Ok(<<>>)
    /\ verdicts = <<>>

SearchIdle ==
    /\ search_index = <<>>
    /\ search_options = [query |-> <<>>, domains |-> {}, case_sensitive |-> FALSE]
    /\ search_results = <<>>
    /\ search_pc = "idle"

RegistryIdle ==
    /\ request = [version |-> "", offline |-> FALSE]
    /\ env = [cargo_home |-> TRUE]
    /\ resolved_version = ""
    /\ effects = <<>>
    /\ fetched = Ok(<<>>)
    /\ fetch_pc = "idle"

Init ==
    /\ crate_data \in {Crates[c] : c \in CrateNames}
    /\ config \in {[filter |-> f, selection |-> s,
                    render_private_items |-> p, render_auto_impls |-> a] :
                     f \in Filters[crate_data.name],
                     s \in Selections(crate_data.name),
                     p \in BOOLEAN, a \in BOOLEAN}
    /\ filter_matched = FALSE
    /\ stack = <<>>
    /\ output = <<>>
    /\ pc = "ready"
    /\ result = Ok(<<>>)
    /\ calls = 1
    /\ PipelineIdle
    /\ SearchIdle
    /\ RegistryIdle

Spec == Init /\ [][Next]_vars

(***************************************************************************)
(* Vocabulary of the properties.                                           *)
(***************************************************************************)
Done == pc = "done"

Tokens(text) == {text[i] : i \in 1..Len(text)}

\* The item `id` has a declaration (a one-line declaration or a block head)
\* in `text`.
Declared(text, id) ==
    \E i \in 1..Len(text) : text[i].id = id /\ text[i].t \in {"decl", "open"}

\* Positions of the declarations of `id` in `text`.
DeclPositions(text, id) ==
    {i \in 1..Len(text) : text[i].id = id /\ text[i].t \in {"decl", "open"}}

HasImports == \E id \in Ids : Index[id].kind = "Use"

Parent(id) == ParentOf(Index, id)

IsModuleItem(id) == \E p \in Ids : Index[p].kind = "Module" /\ id \in Range(Index[p].items)
IsInherentImplMember(id) ==
    \E p \in Ids : /\ Index[p].kind = "Impl" /\ ~Index[p].trait_.some
                   /\ id \in Range(Index[p].items)
IsNamedStructField(id) ==
    \E p \in Ids : /\ Index[p].kind = "Struct" /\ Index[p].skind = "Plain"
                   /\ id \in Range(Index[p].fields)

\* The name an item is known under: its own, or the local name of an import.
CanonicalName(id) ==
    IF Index[id].kind = "Use" THEN <<Index[id].use_name>> ELSE Index[id].name

\* Path of an item below the root: the parent's path plus the own name.
RECURSIVE CanonicalPath(_)
CanonicalPath(id) ==
    IF id = Root THEN <<>> ELSE CanonicalPath(Parent(id)) \o CanonicalName(id)

RECURSIVE IsAncestor(_, _)
\* `a` is `id` or an ancestor of `id`.
IsAncestor(a, id) ==
    IF a = id THEN TRUE ELSE IF id = Root THEN FALSE ELSE IsAncestor(a, Parent(id))

\* Every path below the root under which an item can be named: by nesting,
\* through an implementation block of its type, or through an import.
RECURSIVE PathsUnder(_, _, _)
PathsUnder(id, prefix, fuel) ==
    LET item == Index[id]
        own == prefix \o item.name
        Sub(ids, pre) ==
            UNION {PathsUnder(c, pre, fuel - 1) : c \in (Range(ids) \cap Ids)}
    IN  IF fuel = 0 THEN {}
        ELSE CASE item.kind = "Use" ->
                    {prefix \o <<item.use_name>>}
                      \cup (IF item.use_id \in Ids
                            THEN IF item.is_glob
                                 THEN Sub(Index[item.use_id].items, prefix)
                                        \cup Sub(Index[item.use_id].variants, prefix)
                                 ELSE PathsUnder(item.use_id, prefix, fuel - 1)
                            ELSE {})
               [] item.kind = "Impl" ->
                    Sub(item.items, prefix \o item.for_path)
               [] OTHER ->
                    {own} \cup Sub(item.items, own) \cup Sub(item.fields, own)
                          \cup Sub(item.variants, own) \cup Sub(item.impls, prefix)

AllPaths ==
    UNION {PathsUnder(c, <<>>, MaxDepth + 2) : c \in Range(Index[Root].items) \cap Ids}

\* `part` occurs in `whole` as a contiguous piece.
Contains(whole, part) ==
    \E i \in 0..(Len(whole) - Len(part)) : SubSeq(whole, i + 1, i + Len(part)) = part

\* RipdocError::fmt for FilterNotMatched, as pieces of text.
ErrorMessage(res) ==
    <<"filter path '">> \o res.filter \o <<"' did not match any items">>

(***************************************************************************)
(* Properties.                                                             *)
(***************************************************************************)
\* The render_item call the next step makes, if it makes one: <<id>>.
PendingItemCall ==
    IF pc = "ready" THEN <<Root>>
    ELSE IF ~Walking THEN <<>>
    ELSE IF Top.fn = "render_module" /\ Top.idx <= Len(Index[Top.id].items)
            /\ InIndex(Index[Top.id].items[Top.idx])
         THEN <<Index[Top.id].items[Top.idx]>>
    ELSE IF Top.fn = "render_use" /\ Top.idx <= Len(Top.targets)
            /\ InIndex(Top.targets[Top.idx])
         THEN <<Top.targets[Top.idx]>>
    ELSE <<>>

\* The step returned empty text to the caller without a new frame and
\* without touching the filter flag.
ReturnedNothing ==
    /\ filter_matched' = filter_matched
    /\ IF pc = "ready"
       THEN stack' = <<>> /\ output' = <<>> /\ pc' = "walked"
       ELSE stack' = Advanced /\ output' = output /\ pc' = pc

\* C1: with a selection active, render_item on an item that is not in the
\* selection's context returns empty text, pushes no frame (no recursion into
\* the children) and leaves filter_matched as it was (the filter gate is not
\* evaluated).
C1_SelectionGateFirst ==
    [][\A id \in Range(PendingItemCall) :
          (config.selection.some /\ id \notin config.selection.context)
             => ReturnedNothing]_vars

\* Witness of C1: the walk ended without the filter being matched although
\* the item the filter names was visited: it was outside the context.
C1_Witness ==
    /\ Done
    /\ crate_data.name = "types"
    /\ config.filter = <<"helper">>
    /\ config.selection.some
    /\ 10 \notin config.selection.context
    /\ 0 \in config.selection.context
    /\ ~filter_matched
    /\ ~result.ok

\* C2 (as claimed): with private rendering off and no imports in the graph,
\* no non-public module-level item, inherent-impl member or named struct
\* field appears in the rendered text.
C2_NoPrivateEmitted ==
    (Done /\ ~config.render_private_items /\ ~HasImports)
       => \A tok \in Tokens(result.text) :
             (IsModuleItem(tok.id) \/ IsInherentImplMember(tok.id)
                \/ IsNamedStructField(tok.id))
                => Index[tok.id].vis = "public"

\* C3: a non-empty filter that is the path of no item makes render fail with
\* FilterNotMatched carrying the filter, without text; the message shows the
\* filter.
C3_FilterNotMatched ==
    (Done /\ config.filter # <<>> /\ config.filter \notin AllPaths)
       => /\ result = FilterNotMatched(config.filter)
          /\ result.text = <<>>
          /\ Contains(ErrorMessage(result), config.filter)

\* Witness of C3: a whole walk with a filter that names nothing, one of whose
\* leading components names a module that was walked.
C3_Witness ==
    /\ Done
    /\ crate_data.name = "types"
    /\ config.filter = <<"m", "nope">>
    /\ ~config.selection.some
    /\ ~result.ok
    /\ result.filter = <<"m", "nope">>

\* C4 (as claimed): a filter equal to the canonical path of an existing item
\* is accepted and that item is rendered, whatever its kind (no selection,
\* private rendering on, so that no other gate stops the item).
C4_ExistingPathAccepted ==
    (Done /\ ~config.selection.some /\ config.render_private_items /\ ~HasImports)
       => \A id \in Ids \ {Root} :
             (Index[id].name # <<>> /\ config.filter = CanonicalPath(id))
                => (result.ok /\ Declared(result.text, id))

\* The token belongs to an item at or below the filter target, or is the
\* wrapper of a module above it.
InFilterSubtree(tok) ==
    \/ starts_with(CanonicalPath(tok.id), config.filter)
    \/ /\ Index[tok.id].kind = "Module"
       /\ tok.t \in {"open", "close"}
       /\ starts_with(config.filter, CanonicalPath(tok.id))

\* C5 (as claimed): a successful render under a non-empty filter emits only
\* the filter target and its descendants, inside the module wrappers of its
\* ancestors.
C5_FilterExact ==
    (Done /\ result.ok /\ config.filter # <<>> /\ ~HasImports)
       => \A tok \in Tokens(result.text) : InFilterSubtree(tok)

\* The positional entries a tuple struct must show: one per declared field,
\* the field itself when visible, the placeholder otherwise.
ExpectedEntries(id) ==
    [i \in 1..Len(Index[id].fields) |->
       IF Index[id].fields[i] # NoId /\ is_visible(Index[id].fields[i])
       THEN Shown(Index[id].fields[i]) ELSE Masked]

IsTupleStruct(id) == Index[id].kind = "Struct" /\ Index[id].skind = "Tuple"

\* C6 (as claimed): every emitted tuple-struct declaration has one entry per
\* declared field, in declared order, masked exactly where the field is not
\* visible.
C6_TupleArity ==
    Done => \A tok \in Tokens(result.text) :
               (tok.t = "decl" /\ IsTupleStruct(tok.id))
                  => tok.ents = ExpectedEntries(tok.id)

\* The implementation contributes a name to the derive annotation of its type.
ContributesDerive(impl_id) ==
    /\ Index[impl_id].kind = "Impl"
    /\ ~Index[impl_id].is_synthetic
    /\ Index[impl_id].trait_.some
    /\ LastSegment(Index[impl_id].trait_.path) \in DERIVE_TRAITS

\* C7 (as claimed): an implementation that contributes a derive name is never
\* emitted as an explicit block.
C7_NoDeriveBlock ==
    Done => \A impl_id \in Ids :
               ContributesDerive(impl_id) => ~Declared(result.text, impl_id)

\* C8 (as claimed): no item is declared twice in the text of one render.
C8_NoDuplicate ==
    Done => \A id \in Ids : Cardinality(DeclPositions(result.text, id)) <= 1

\* The descendants an expanded container must show: its direct members and,
\* for a type, the members of its inherent implementation blocks.
DirectMembers(id) ==
    (Range(Index[id].items) \cup Range(Index[id].fields)
       \cup Range(Index[id].variants)) \cap Ids

ExpansionMembers(id) ==
    {d \in DirectMembers(id) : Index[d].kind \notin {"Impl", "Use"}}
      \cup UNION {DirectMembers(i) :
                    i \in {j \in Range(Index[id].impls) \cap Ids :
                             ~Index[j].trait_.some}}

\* C9 (as claimed): every rendered container of the expanded set shows all
\* its members, in context or not (no filter, private rendering on, so that
\* only the selection gate could stop them).
C9_ExpandedShowsAll ==
    (Done /\ result.ok /\ config.selection.some /\ config.filter = <<>>
       /\ config.render_private_items /\ ~HasImports)
       => \A c \in config.selection.expanded :
             Declared(result.text, c)
                => \A d \in ExpansionMembers(c) : Declared(result.text, d)

\* `inner` is declared in `text` between the head and the end of block `outer`.
Inside(text, inner, outer) ==
    \E a, b, c \in 1..Len(text) :
       /\ a < b /\ b < c
       /\ text[a] = Tok("open", outer)
       /\ text[b] = Tok("decl", inner)
       /\ text[c] = Tok("close", outer)

IsMethod(id) ==
    /\ id # Root
    /\ Index[Parent(id)].kind = "Impl"
    /\ Index[Parent(id)].for_id \in Ids
    /\ Index[Index[Parent(id)].for_id].kind \in {"Struct", "Enum"}

TypeOf(method) == Index[Parent(method)].for_id

ModuleChain(id) == {a \in Ids : Index[a].kind = "Module" /\ IsAncestor(a, id)}

\* The selection of a search that hit the single method `m`, no expansion.
SingleMethodSelection(m) ==
    /\ config.selection.some
    /\ config.selection.matches = {m}
    /\ config.selection.expanded = {}
    /\ config.selection.context
         = {m, Parent(m), TypeOf(m)} \cup ModuleChain(TypeOf(m))

\* No gate other than the selection stops the method: the modules, the type
\* and the method are visible and the block is one that render_impl prints.
MethodPassesOtherGates(m) ==
    /\ config.filter = <<>>
    /\ \A a \in ModuleChain(TypeOf(m)) \cup {TypeOf(m)} : is_visible(a)
    /\ should_render_impl(Parent(m), config.render_auto_impls)
    /\ Index[Parent(m)].trait_.some \/ is_visible(m)

SiblingMethods(m) ==
    UNION {DirectMembers(i) : i \in Range(Index[TypeOf(m)].impls) \cap Ids} \ {m}

C11_MatchesInContext ==
    /\ [](config.selection.matches \subseteq config.selection.context)
    /\ [][config.selection' = config.selection]_vars

\* Witness of C11: a finished render under the selection built from the triple
\* ({render}, {}, {}): the match is in the context although it was not passed
\* in it.
C11_Witness ==
    /\ Done
    /\ crate_data.name = "types"
    /\ config.selection = RenderSelectionNew({12}, {}, {})
    /\ 12 \in config.selection.context

\* Component-by-component comparison of two paths.
SameComponents(a, b) == Len(a) = Len(b) /\ \A i \in 1..Len(a) : a[i] = b[i]
StrictPrefix(a, b) == Len(a) < Len(b) /\ \A i \in 1..Len(a) : a[i] = b[i]

\* The class of an item by its canonical path below the root.
PathClass(id) ==
    IF SameComponents(config.filter, CanonicalPath(id)) THEN "Hit"
    ELSE IF StrictPrefix(CanonicalPath(id), config.filter) THEN "Prefix"
    ELSE IF StrictPrefix(config.filter, CanonicalPath(id)) THEN "Suffix"
    ELSE "Miss"

\* C12 (as claimed): for every child a module is about to render, filter_match
\* is the class of the child's canonical path against the filter, and
\* should_filter drops the child exactly when the filter is not empty and the
\* class is Miss; the root module is never dropped.
C12_FilterMatchByPath ==
    /\ pc = "ready" => ~should_filter(<<>>, Root, filter_matched)[1]
    /\ (Walking /\ Top.fn = "render_module"
          /\ Top.prefix = <<Index[Root].name[1]>> \o CanonicalPath(Top.id)
          /\ Top.idx <= Len(Index[Top.id].items))
         => LET id == Index[Top.id].items[Top.idx]
            IN  /\ config.filter # <<>>
                     => filter_match(Top.prefix, id) = PathClass(id)
                /\ should_filter(Top.prefix, id, filter_matched)[1]
                     = (config.filter # <<>> /\ PathClass(id) = "Miss")

\* `inner` is declared in `text` between the head and the end of block `outer`.
InBlock(text, inner, outer) ==
    \E a, b, c \in 1..Len(text) :
       /\ a < b /\ b < c
       /\ text[a] = Tok("open", outer)
       /\ text[b].id = inner /\ text[b].t \in {"decl", "open"}
       /\ text[c] = Tok("close", outer)

\* Kinds for which render_item produces a declaration of the item itself.
DeclaredKinds ==
    {"Module", "Struct", "Enum", "Trait", "Function", "Constant", "TypeAlias",
     "Macro", "ProcMacro"}

IsImport(u) == Index[u].kind = "Use" /\ Index[u].use_id \in Ids

\* The children a wildcard import of `t` ranges over.
GlobChildren(t) ==
    CASE Index[t].kind = "Module" -> Range(Index[t].items)
      [] Index[t].kind = "Enum" -> Range(Index[t].variants)
      [] OTHER -> {}

IsImplOfType(impl_id) ==
    /\ Index[impl_id].kind = "Impl"
    /\ \E t \in Ids : impl_id \in Range(Index[t].impls)

\* The trait of the block is named in the derive annotation's allow-list.
TraitOnAllowList(impl_id) ==
    /\ Index[impl_id].trait_.some
    /\ LastSegment(Index[impl_id].trait_.path) \in DERIVE_TRAITS

\* The trait of the block is an item of the graph that fails the visibility gate.
TraitNotVisible(impl_id) ==
    /\ Index[impl_id].trait_.some
    /\ Index[impl_id].trait_.id \in Ids
    /\ ~is_visible(Index[impl_id].trait_.id)

\* C14 (as claimed): a block of a struct or enum is absent from the text when
\* it is synthetic and auto-implementations are off, or its trait is on the
\* allow-list, or it is a blanket implementation, or its trait is in the graph
\* and not visible (also when the type was reached through an import).
C14_SuppressedImpls ==
    Done => \A impl_id \in Ids :
               (/\ IsImplOfType(impl_id)
                /\ \/ Index[impl_id].is_synthetic /\ ~config.render_auto_impls
                   \/ TraitOnAllowList(impl_id)
                   \/ Index[impl_id].blanket
                   \/ TraitNotVisible(impl_id))
                  => ~Declared(result.text, impl_id)

\* Every fragment of the implementation block `impl_id` in `text` belongs to a
\* block with a member: its doc comment is followed by its head, its head by a
\* fragment of one of its members, and its end is preceded by one.
ImplBlocksHaveMembers(text, impl_id) ==
    \A i \in 1..Len(text) :
       text[i].id = impl_id
          => CASE text[i].t = "doc" ->
                    i < Len(text) /\ text[i + 1] = Tok("open", impl_id)
               [] text[i].t = "open" ->
                    i < Len(text) /\ text[i + 1].id \in Range(Index[impl_id].items)
               [] text[i].t = "close" ->
                    i > 1 /\ text[i - 1].id \in Range(Index[impl_id].items)
               [] OTHER -> FALSE

\* C15: no text returned by the walk holds an implementation block without
\* members: neither the rendered text nor the text a type has collected so
\* far shows a head, doc comment or end of a block none of whose members
\* produced output.
C15_NoEmptyImpl ==
    \A impl_id \in Ids :
       Index[impl_id].kind = "Impl"
          => /\ ImplBlocksHaveMembers(result.text, impl_id)
             /\ ImplBlocksHaveMembers(output, impl_id)
             /\ \A i \in 1..Depth :
                   stack[i].fn # "render_impl"
                      => ImplBlocksHaveMembers(stack[i].out, impl_id)

\* Witness of C15: under the filter m::S::render the block `impl S` is in the
\* text with its method, and the block `impl fmt::Display for S`, whose only
\* member the filter drops, left no fragment.
C15_Witness ==
    /\ Done
    /\ crate_data.name = "types"
    /\ config.filter = <<"m", "S", "render">>
    /\ ~config.selection.some
    /\ result.ok
    /\ Declared(result.text, 5)
    /\ Declared(result.text, 12)
    /\ should_render_impl(8, config.render_auto_impls)
    /\ \A i \in 1..Len(result.text) : result.text[i].id # 8

\* The type whose list of implementation blocks holds `impl_id`.
ImplementingType(impl_id) == CHOOSE t \in Ids : impl_id \in Range(Index[t].impls)

\* C16 (as claimed): with auto-implementations enabled (no selection, no
\* filter), every compiler-synthesized implementation block of a type that is
\* declared in the text is declared in the text too.
C16_AutoImplsEmitted ==
    (Done /\ config.render_auto_impls /\ ~config.selection.some
       /\ config.filter = <<>>)
       => \A impl_id \in Ids :
             (IsImplOfType(impl_id) /\ Index[impl_id].is_synthetic
                /\ Declared(result.text, ImplementingType(impl_id)))
               => Declared(result.text, impl_id)

HasModuleDoc(text, id) == \E i \in 1..Len(text) : text[i] = Tok("moddoc", id)

\* C17 (as claimed): under a non-empty filter (no imports in the graph) a
\* module that is in the text and has docs shows its `//!` header exactly when
\* its path is the filter path or lies below it; a strict ancestor of the
\* filter target shows none.
C17_ModuleDocAtOrBelow ==
    (Done /\ config.filter # <<>> /\ ~HasImports)
       => \A id \in Ids :
             (Index[id].kind = "Module" /\ Index[id].docs
                /\ Declared(result.text, id))
               => (HasModuleDoc(result.text, id)
                     <=> starts_with(CanonicalPath(id), config.filter))

IsPlainStruct(id) == Index[id].kind = "Struct" /\ Index[id].skind = "Plain"

\* The body a struct with named fields must show: the visible fields, each
\* with its doc comment, in declared order.
RECURSIVE VisibleFields(_)
VisibleFields(fields) ==
    IF fields = <<>> THEN <<>>
    ELSE (IF is_visible(Head(fields))
          THEN (IF Index[Head(fields)].docs THEN <<Tok("doc", Head(fields))>>
                ELSE <<>>) \o <<Tok("decl", Head(fields))>>
          ELSE <<>>)
           \o VisibleFields(Tail(fields))

\* C18: without a selection, every head of a struct with named fields in the
\* text is followed by exactly its visible fields in declared order and then
\* by the end of the body; with no visible field the end follows the head.
C18_PlainStructBody ==
    (Done /\ ~config.selection.some)
       => \A i \in 1..Len(result.text) :
             (result.text[i].t = "open" /\ IsPlainStruct(result.text[i].id))
               => LET id == result.text[i].id
                      body == VisibleFields(Index[id].fields) \o <<Tok("close", id)>>
                  IN  /\ i + Len(body) <= Len(result.text)
                      /\ SubSeq(result.text, i + 1, i + Len(body)) = body

\* Witness of C18: with private rendering off, struct W, whose only field is
\* private, is in the text with an empty body.
C18_Witness ==
    /\ Done
    /\ crate_data.name = "impls"
    /\ ~config.selection.some
    /\ ~config.render_private_items
    /\ IsPlainStruct(3)
    /\ ~is_visible(7)
    /\ \E i \in 1..(Len(result.text) - 1) :
          result.text[i] = Tok("open", 3) /\ result.text[i + 1] = Tok("close", 3)

SingleFragmentKinds == {"Function", "Constant", "Static", "TypeAlias"}

\* The prefix under which a module renders its children.
ModulePrefix(m) == Index[Root].name \o CanonicalPath(m)

\* C19 (as claimed): (no imports in the graph) every visible function,
\* constant, static or type alias that is a child of a module in the text, is
\* in the selection context and is not dropped by the filter has exactly one
\* declaration in the text.
C19_SingleFragment ==
    (Done /\ ~HasImports)
       => \A id \in Ids :
             (/\ Index[id].kind \in SingleFragmentKinds
              /\ IsModuleItem(id)
              /\ Declared(result.text, Parent(id))
              /\ is_visible(id)
              /\ selection_context_contains(id)
              /\ ~should_filter(ModulePrefix(Parent(id)), id, filter_matched)[1])
               => Cardinality(DeclPositions(result.text, id)) = 1

\* C20 (as claimed): a render never has more active calls than the graph has
\* items, so the recursion ends and the call returns: the call stack stays
\* within the number of items and the walk never runs out of stack.
C20_BoundedWalk ==
    /\ Depth <= Cardinality(Ids)
    /\ pc # "overflow"

\* Every identifier in a slot that the walk dereferences is in the index and
\* has the kind the slot requires.
WellFormed ==
    /\ Root \in Ids
    /\ \A id \in Ids :
          /\ \A c \in Range(Index[id].items) :
                Index[id].kind \in {"Module", "Trait"} => c \in Ids
          /\ \A c \in Range(Index[id].impls) : c \in Ids /\ Index[c].kind = "Impl"
          /\ \A c \in Range(Index[id].fields) \ {NoId} :
                c \in Ids /\ Index[c].kind = "StructField"
          /\ \A c \in Range(Index[id].variants) :
                c \in Ids /\ Index[c].kind = "Variant"

\* C21: on a well-formed graph no render reaches the panic of must_get or of
\* extract_item, whatever the selection, the filter and the visibility
\* settings.
C21_NoPanic == WellFormed => pc # "panic"

\* Witness of C21: a finished render of the types crate in which the struct S
\* was rendered with a field and an implementation block, each looked up with
\* must_get and destructured with extract_item.
C21_Witness ==
    /\ Done
    /\ crate_data.name = "types"
    /\ WellFormed
    /\ Declared(result.text, 2)
    /\ Declared(result.text, 3)
    /\ Declared(result.text, 5)

(***************************************************************************)
(* Markdown conversion (markdown.rs).  A text is the sequence of its       *)
(* lines.  An input line is known by its class: what the conversion tests  *)
(* of a line is whether it is blank, whether it is a doc comment (`///` or *)
(* `//!`), and what the doc text starts with.  Indentation is left out.    *)
(***************************************************************************)
\* Longest input text, in lines.
MaxLines == 3

CodeKinds == {"mod_open", "brace", "code"}
FenceKinds == {"doc_fence", "doc_fence_text", "doc_fence_other"}
DocKinds == {"doc_text", "doc_blank", "doc_hash", "doc_list", "moddoc_text"}
                \cup FenceKinds
LineKinds == CodeKinds \cup {"blank"} \cup DocKinds

\* A line of the Markdown under construction: what it is, the form of a
\* fence line ("rust" for ```rust, "bare" for ```, "other" for a fence that
\* keeps the language it was written with), and the input lines it is made of.
OutLine(k, form, src) == [k |-> k, form |-> form, src |-> src]
BlankLine == OutLine("blank", "", {})

is_doc_comment(line) == line \in DocKinds

\* strip_doc_comment(..).trim().is_empty()
doc_text_is_empty(line) == line = "doc_blank"

\* collect_doc_block: the last line of the run of doc comments starting at i.
RECURSIVE collect_doc_block(_, _)
collect_doc_block(source, i) ==
    IF i < Len(source) /\ is_doc_comment(source[i + 1])
    THEN collect_doc_block(source, i + 1)
    ELSE i

normalize_doc_lang(line) ==
    CASE line = "doc_fence" -> [some |-> TRUE, mapped |-> "rust"]
      [] line = "doc_fence_text" -> [some |-> TRUE, mapped |-> ""]
      [] OTHER -> [some |-> FALSE, mapped |-> ""]

\* Variant of unhide_doctest_line that hides nothing.
unhide_doctest_line_all(line) == TRUE

\* unhide_doctest_line: is the line written (Some) or hidden (None)?
unhide_doctest_line(line) == line # "doc_hash"

is_list_item(line) == line = "doc_list"

ends_with_gap(markdown) ==
    Len(markdown) > 0 /\ markdown[Len(markdown)].k = "blank"

ensure_block_gap(markdown) ==
    IF markdown = <<>> \/ ends_with_gap(markdown) THEN markdown
    ELSE Append(markdown, BlankLine)

\* flush_paragraph on the state of render_doc_block.
flush_paragraph(d) ==
    IF d.paragraph = {} THEN d
    ELSE [d EXCEPT
            !.markdown = (IF @ = <<>> THEN @ ELSE Append(@, BlankLine))
                           \o <<OutLine("para", "", d.paragraph), BlankLine>>,
            !.contains_text = TRUE,
            !.paragraph = {}]

\* render_doc_block: the body of the loop for the doc line i.
doc_line(source, i, d) ==
    LET line == source[i]
        lang == normalize_doc_lang(line)
        f == flush_paragraph(d)
    IN  IF line \in FenceKinds
        THEN [f EXCEPT
                !.markdown = @ \o
                    (IF lang.some
                     THEN IF d.fence_open
                          THEN <<OutLine("fence", "bare", {i}), BlankLine>>
                          ELSE <<OutLine("fence",
                                         IF lang.mapped = "" THEN "bare" ELSE "rust",
                                         {i})>>
                     ELSE <<OutLine("fence", "other", {i})>>),
                !.fence_open = ~d.fence_open,
                !.in_list_block = FALSE]
        ELSE IF d.fence_open
        THEN IF unhide_doctest_line(line)
             THEN [d EXCEPT !.markdown =
                      Append(@, IF doc_text_is_empty(line)
                                THEN OutLine("blank", "", {i})
                                ELSE OutLine("docline", "", {i}))]
             ELSE d
        ELSE IF doc_text_is_empty(line)
        THEN [f EXCEPT
                !.markdown = IF d.in_list_block THEN ensure_block_gap(@) ELSE @,
                !.in_list_block = FALSE]
        ELSE IF is_list_item(line)
        THEN [f EXCEPT
                !.markdown = Append(IF d.in_list_block THEN @
                                    ELSE ensure_block_gap(@),
                                    OutLine("list", "", {i})),
                !.in_list_block = TRUE,
                !.contains_text = TRUE]
        ELSE [d EXCEPT
                !.markdown = IF d.in_list_block THEN ensure_block_gap(@) ELSE @,
                !.in_list_block = FALSE,
                !.paragraph = @ \cup {i}]

RECURSIVE doc_lines(_, _, _, _)
doc_lines(source, i, j, d) ==
    IF i > j THEN d ELSE doc_lines(source, i + 1, j, doc_line(source, i, d))

\* Variant of render_doc_block that leaves an open fence open.
render_doc_block_unclosed(source, i, j, markdown) ==
    LET d == flush_paragraph(
                 doc_lines(source, i, j,
                           [markdown |-> markdown, fence_open |-> FALSE,
                            contains_text |-> FALSE, paragraph |-> {},
                            in_list_block |-> FALSE]))
    IN  [markdown |-> IF d.in_list_block THEN ensure_block_gap(d.markdown)
                      ELSE d.markdown,
         contains_text |-> d.contains_text]

\* render_doc_block for the doc block source[i..j].
render_doc_block(source, i, j, markdown) ==
    LET d == flush_paragraph(
                 doc_lines(source, i, j,
                           [markdown |-> markdown, fence_open |-> FALSE,
                            contains_text |-> FALSE, paragraph |-> {},
                            in_list_block |-> FALSE]))
        gapped == IF d.in_list_block THEN ensure_block_gap(d.markdown)
                  ELSE d.markdown
    IN  [markdown |-> IF d.fence_open
                      THEN gapped \o <<OutLine("fence", "bare", {}), BlankLine>>
                      ELSE gapped,
         contains_text |-> d.contains_text]

\* dedent_lines: a whitespace-only line becomes an empty line.
dedent_lines(lines) ==
    [n \in 1..Len(lines) |->
        IF lines[n].k = "blank" THEN BlankLine ELSE lines[n]]

flush_code_block(markdown, code_buffer, need_gap_before_code) ==
    IF \A n \in 1..Len(code_buffer) : code_buffer[n].k = "blank"
    THEN [markdown |-> markdown, need_gap_before_code |-> need_gap_before_code]
    ELSE [markdown |->
              (IF need_gap_before_code /\ markdown # <<>>
               THEN Append(markdown, BlankLine) ELSE markdown)
                \o <<OutLine("fence", "rust", {})>>
                \o dedent_lines(code_buffer)
                \o <<OutLine("fence", "bare", {}), BlankLine>>,
          need_gap_before_code |-> FALSE]

\* normalize_spacing.
RECURSIVE normalize_lines(_, _, _, _)
normalize_lines(lines, idx, acc, in_fence) ==
    IF idx > Len(lines) THEN acc
    ELSE LET line == lines[idx]
             prev_blank == acc # <<>> /\ acc[Len(acc)].k = "blank"
             next_is_closing == in_fence /\ idx < Len(lines)
                                  /\ lines[idx + 1].k = "fence"
         IN  IF line.k = "fence"
             THEN normalize_lines(lines, idx + 1,
                      Append(IF in_fence /\ prev_blank
                             THEN SubSeq(acc, 1, Len(acc) - 1) ELSE acc, line),
                      ~in_fence)
             ELSE IF line.k = "blank"
             THEN normalize_lines(lines, idx + 1,
                      IF prev_blank \/ next_is_closing THEN acc
                      ELSE Append(acc, BlankLine),
                      in_fence)
             ELSE normalize_lines(lines, idx + 1, Append(acc, line), in_fence)

normalize_spacing(input) == normalize_lines(input, 1, <<>>, FALSE)

\* str::trim on a text: the blank lines at both ends go.
RECURSIVE trim_start(_, _)
trim_start(lines, blank) ==
    IF lines # <<>> /\ blank[lines[1]] THEN trim_start(Tail(lines), blank)
    ELSE lines

RECURSIVE trim_end(_, _)
trim_end(lines, blank) ==
    IF lines # <<>> /\ blank[lines[Len(lines)]]
    THEN trim_end(SubSeq(lines, 1, Len(lines) - 1), blank)
    ELSE lines

trim_markdown(lines) ==
    LET blank == [l \in Range(lines) |-> l.k = "blank"]
    IN  trim_end(trim_start(lines, blank), blank)

trim_source(lines) ==
    LET blank == [l \in Range(lines) |-> l = "blank"]
    IN  trim_end(trim_start(lines, blank), blank)

\* Variant of the inline test that takes a doc block of any length.
inline_doc_any_length(source, i, j, in_code_block) ==
    /\ in_code_block
    /\ source[i] # "moddoc_text"
    /\ ~doc_text_is_empty(source[i])

\* rust_to_markdown: is the doc block source[i..j] kept in the open code block?
inline_doc(source, i, j, in_code_block) ==
    /\ in_code_block
    /\ source[i] # "moddoc_text"
    /\ j = i
    /\ ~doc_text_is_empty(source[i])

\* rust_to_markdown: the loop over the lines, from line i on.
RECURSIVE markdown_lines(_, _, _)
markdown_lines(source, i, m) ==
    IF i > Len(source) THEN m
    ELSE IF is_doc_comment(source[i])
    THEN LET j == collect_doc_block(source, i)
             flushed == flush_code_block(m.markdown, m.code_buffer,
                                         m.need_gap_before_code)
             doc == render_doc_block(source, i, j, flushed.markdown)
         IN  IF inline_doc(source, i, j, m.in_code_block)
             THEN markdown_lines(source, j + 1,
                      [m EXCEPT !.code_buffer =
                                   Append(@, OutLine("comment", "", {i}))])
             ELSE markdown_lines(source, j + 1,
                      [markdown |-> doc.markdown,
                       in_code_block |-> FALSE,
                       need_gap_before_code |-> doc.contains_text,
                       code_buffer |-> <<>>])
    ELSE IF source[i] = "blank"
    THEN markdown_lines(source, i + 1,
             IF m.in_code_block
             THEN [m EXCEPT !.code_buffer = Append(@, OutLine("blank", "", {i}))]
             ELSE m)
    ELSE markdown_lines(source, i + 1,
             [m EXCEPT !.in_code_block = TRUE,
                       !.code_buffer = Append(@, OutLine("code", "", {i}))])

rust_to_markdown(source) ==
    LET m == markdown_lines(source, 1,
                 [markdown |-> <<>>, in_code_block |-> FALSE,
                  need_gap_before_code |-> FALSE, code_buffer |-> <<>>])
        flushed == flush_code_block(m.markdown, m.code_buffer,
                                    m.need_gap_before_code)
    IN  trim_markdown(normalize_spacing(flushed.markdown))

strip_outer_module(source) ==
    LET trimmed == trim_source(source)
    IN  IF /\ Len(trimmed) >= 2
           /\ trimmed[1] = "mod_open"
           /\ trimmed[Len(trimmed)] = "brace"
        THEN SubSeq(trimmed, 2, Len(trimmed) - 1)
        ELSE trimmed

render_markdown(source) == rust_to_markdown(strip_outer_module(source))

(***************************************************************************)
(* The conversion applied to every text of at most MaxLines lines.         *)
(***************************************************************************)
Sources == UNION {[1..n -> LineKinds] : n \in 0..MaxLines}

WalkIdle ==
    /\ crate_data = [name |-> "", root |-> NoId, index |-> <<>>]
    /\ config = [filter |-> <<>>, selection |-> NoSelection,
                 render_private_items |-> FALSE, render_auto_impls |-> FALSE]
    /\ filter_matched = FALSE
    /\ stack = <<>>
    /\ output = <<>>
    /\ pc = "idle"
    /\ result = Ok(<<>>)
    /\ calls = 0

MarkdownInit ==
    /\ WalkIdle
    /\ SearchIdle
    /\ RegistryIdle
    /\ format = "Markdown"
    /\ raw_output \in Sources
    /\ stage = "source"
    /\ returned = Ok(<<>>)
    /\ verdicts = <<>>

\* markdown::render_markdown(source).
RenderMarkdownSource ==
    /\ stage = "source"
    /\ stage' = "done"
    /\ returned' = Ok(render_markdown(raw_output))
    /\ UNCHANGED <<walk, searching, registry, format, raw_output, verdicts>>

MarkdownNext == RenderMarkdownSource

MarkdownSpec == MarkdownInit /\ [][MarkdownNext]_vars

(***************************************************************************)
(* Renderer::render after the walk: RenderState::render hands the text of  *)
(* the walk to the formatter, render_rust formats what it gets once more,  *)
(* render_markdown converts the formatted text.  The formatter is the      *)
(* external rust_format crate: it accepts a text and returns it            *)
(* reformatted, or rejects it with an error.                               *)
(***************************************************************************)
RenderFormat == {"Rust", "Markdown"}

\* What a call of the formatter may answer: acceptance, or one of its errors.
FormatErrors == {"expected item", "unexpected end of input"}
Verdicts == {"ok"} \cup FormatErrors

\* RipdocError::Formatter(err), built by From<FormatError>.
Formatter(err) == [ok |-> FALSE, err |-> "Formatter", filter |-> <<>>,
                   text |-> <<>>, source |-> err]

\* An accepted text as the formatter lays it out: no blank line at either
\* end, no two blank lines in a row.
RECURSIVE squeeze(_)
squeeze(lines) ==
    IF Len(lines) < 2 THEN lines
    ELSE IF lines[1] = "blank" /\ lines[2] = "blank" THEN squeeze(Tail(lines))
    ELSE <<lines[1]>> \o squeeze(Tail(lines))

format_str(source, verdict) ==
    IF verdict = "ok" THEN Ok(squeeze(trim_source(source)))
    ELSE Formatter(verdict)

\* Variant of render_rust that falls back to the text it was given.
render_rust_or_raw(raw, verdict) ==
    IF verdict = "ok" THEN format_str(raw, verdict) ELSE Ok(raw)

\* Renderer::render_rust
render_rust(raw, verdict) == format_str(raw, verdict)

\* Renderer::render_markdown (core.rs has its own copy of the conversion of
\* markdown.rs).
render_markdown_format(raw, verdict) ==
    LET formatted == render_rust(raw, verdict)
    IN  IF formatted.ok
        THEN Ok(rust_to_markdown(strip_outer_module(formatted.text)))
        ELSE formatted

FormatInit ==
    /\ WalkIdle
    /\ SearchIdle
    /\ RegistryIdle
    /\ format \in RenderFormat
    /\ raw_output \in Sources
    /\ stage = "walked"
    /\ returned = Ok(<<>>)
    /\ verdicts = <<>>

\* RenderState::render, last line: `Ok(self.config.formatter.format_str(&output)?)`.
StateRender ==
    /\ stage = "walked"
    /\ \E v \in Verdicts :
         LET r == format_str(raw_output, v)
         IN  /\ verdicts' = Append(verdicts, v)
             /\ IF r.ok
                THEN /\ raw_output' = r.text
                     /\ stage' = "rendered"
                     /\ returned' = returned
                ELSE /\ raw_output' = raw_output
                     /\ stage' = "done"
                     /\ returned' = r
    /\ UNCHANGED <<walk, searching, registry, format>>

\* Renderer::render, RenderFormat::Rust arm.
RenderRust ==
    /\ stage = "rendered"
    /\ format = "Rust"
    /\ \E v \in Verdicts :
         /\ verdicts' = Append(verdicts, v)
         /\ returned' = render_rust(raw_output, v)
    /\ stage' = "done"
    /\ UNCHANGED <<walk, searching, registry, format, raw_output>>

\* Renderer::render, RenderFormat::Markdown arm.
RenderMarkdown ==
    /\ stage = "rendered"
    /\ format = "Markdown"
    /\ \E v \in Verdicts :
         /\ verdicts' = Append(verdicts, v)
         /\ returned' = render_markdown_format(raw_output, v)
    /\ stage' = "done"
    /\ UNCHANGED <<walk, searching, registry, format, raw_output>>

FormatNext ==
    \/ StateRender
    \/ RenderRust
    \/ RenderMarkdown

FormatSpec == FormatInit /\ [][FormatNext]_vars

(***************************************************************************)
(* C22.  If the formatter rejects the generated text, Renderer::render     *)
(* returns the formatter's error and no text, in the Rust format and in    *)
(* the Markdown format alike: once a call of the formatter has answered    *)
(* with an error, the render call is over and what it returned is that     *)
(* error.                                                                  *)
(***************************************************************************)
C22_FormatterErrorSurfaced ==
    \A n \in 1..Len(verdicts) :
        verdicts[n] # "ok" =>
            /\ stage = "done"
            /\ returned = Formatter(verdicts[n])
            /\ ~returned.ok /\ returned.text = <<>>

\* The formatter accepted the text of the walk and rejected it in
\* render_markdown.
C22_Witness ==
    /\ stage = "done"
    /\ format = "Markdown"
    /\ raw_output # <<>>
    /\ Len(verdicts) = 2
    /\ verdicts[2] \in FormatErrors

(***************************************************************************)
(* Search index.  A string is the sequence of its characters; an entry of  *)
(* the index carries one string per search domain.                         *)
(***************************************************************************)
\* Longest query, in characters.
MaxQuery == 2

Chars == {"w", "W", "d"}

SearchDomain == {"name", "doc", "path", "signature"}

to_lowercase(str) == [n \in 1..Len(str) |-> IF str[n] = "W" THEN "w" ELSE str[n]]

str_contains(haystack, needle) ==
    \E n \in 0..(Len(haystack) - Len(needle)) :
        SubSeq(haystack, n + 1, n + Len(needle)) = needle

\* The entries of the index in traversal order, after the fixture of the
\* tests: a type whose name and documentation both carry its name, a field
\* that mentions the type in capitals in its documentation only, a function
\* without documentation.
FixtureEntries ==
    << [id |-> 1, name |-> <<"W", "d">>, doc |-> <<"W", "d", "d">>,
        path |-> <<"d", "W", "d">>, signature |-> <<"d", "W", "d">>],
       [id |-> 2, name |-> <<"d">>, doc |-> <<"W", "w">>,
        path |-> <<"d", "W", "d", "d">>, signature |-> <<"d", "w">>],
       [id |-> 3, name |-> <<"w", "w">>, doc |-> <<>>,
        path |-> <<"d", "w", "w">>, signature |-> <<"w", "w", "d">>] >>

normalize(str, case_sensitive) ==
    IF case_sensitive THEN str ELSE to_lowercase(str)

\* Variant of the domain test that always folds the case.
matched_domains_folded(entry, options) ==
    {d \in options.domains :
        str_contains(to_lowercase(entry[d]), to_lowercase(options.query))}

\* The active domains whose field of the entry contains the query.
matched_domains(entry, options) ==
    {d \in options.domains :
        str_contains(normalize(entry[d], options.case_sensitive),
                     normalize(options.query, options.case_sensitive))}

RECURSIVE search_from(_, _, _)
search_from(index, n, options) ==
    IF n > Len(index) THEN <<>>
    ELSE LET matched == matched_domains(index[n], options)
         IN  (IF matched = {} THEN <<>>
              ELSE <<[id |-> index[n].id, matched |-> matched]>>)
               \o search_from(index, n + 1, options)

\* SearchIndex::search
search(index, options) ==
    IF options.domains = {} THEN <<>> ELSE search_from(index, 1, options)

Queries == UNION {[1..n -> Chars] : n \in 0..MaxQuery}

SearchInit ==
    /\ WalkIdle
    /\ PipelineIdle
    /\ RegistryIdle
    /\ search_index = FixtureEntries
    /\ search_options \in [query : Queries, domains : SUBSET SearchDomain,
                           case_sensitive : BOOLEAN]
    /\ search_results = <<>>
    /\ search_pc = "ready"

Search ==
    /\ search_pc = "ready"
    /\ search_pc' = "done"
    /\ search_results' = search(search_index, search_options)
    /\ UNCHANGED <<walk, pipeline, registry, search_index, search_options>>

SearchNext == Search

SearchSpec == SearchInit /\ [][SearchNext]_vars

\* Vocabulary: the query occurs in the field of domain d of the entry at
\* position n, both read as the options say.
Folded(str) ==
    IF search_options.case_sensitive THEN str
    ELSE [k \in DOMAIN str |-> IF str[k] = "W" THEN "w" ELSE str[k]]

Occurs(part, whole) ==
    \E before, after \in 0..Len(whole) :
        /\ before + Len(part) + after = Len(whole)
        /\ \A k \in 1..Len(part) : whole[before + k] = part[k]

DomainHolds(n, d) ==
    /\ d \in search_options.domains
    /\ Occurs(Folded(search_options.query), Folded(search_index[n][d]))

EntryPosition(id) == CHOOSE n \in 1..Len(search_index) : search_index[n].id = id

(***************************************************************************)
(* C23.  search returns exactly the entries for which at least one active  *)
(* domain's field contains the query (case-folded unless the search is     *)
(* case-sensitive), in the order of the index; each result records every   *)
(* active domain that matched; with no active domain the result is empty.  *)
(***************************************************************************)
C23_SearchResults ==
    search_pc = "done" =>
        /\ {search_results[k].id : k \in 1..Len(search_results)}
             = {search_index[n].id :
                  n \in {m \in 1..Len(search_index) :
                           \E d \in SearchDomain : DomainHolds(m, d)}}
        /\ \A k, l \in 1..Len(search_results) :
               k < l => EntryPosition(search_results[k].id)
                          < EntryPosition(search_results[l].id)
        /\ \A k \in 1..Len(search_results) :
               search_results[k].matched
                 = {d \in SearchDomain :
                      DomainHolds(EntryPosition(search_results[k].id), d)}
        /\ (search_options.domains = {} => search_results = <<>>)

\* A case-sensitive search over two domains that returns two entries, one of
\* them matched in both domains, and leaves an entry out.
C23_Witness ==
    /\ search_pc = "done"
    /\ search_options.case_sensitive
    /\ search_options.domains = {"name", "doc"}
    /\ search_options.query = <<"W">>
    /\ Len(search_results) = 2
    /\ search_results[1].matched = {"name", "doc"}
    /\ search_results[2].matched = {"doc"}

(***************************************************************************)
(* Vocabulary of the Markdown claims.  A fence is a line that starts with  *)
(* three backticks, as normalize_spacing reads it; a line is inside a      *)
(* fence when an odd number of fences precedes it.                         *)
(***************************************************************************)
MdDone == format = "Markdown" /\ stage = "done" /\ returned.ok

\* The lines the conversion works on, and the lines it produced.
MdSource == strip_outer_module(raw_output)
MdOut == returned.text

IsFence(p) == MdOut[p].k = "fence"
FencesBefore(p) == Cardinality({q \in 1..(p - 1) : IsFence(q)})
InsideFence(p) == ~IsFence(p) /\ FencesBefore(p) % 2 = 1

\* The fenced block that flush_code_block builds opens with a ```rust line
\* that comes from no input line.
OpensCodeBlock(p) == MdOut[p] = OutLine("fence", "rust", {})
InCodeBlock(p) ==
    /\ ~IsFence(p)
    /\ \E o \in 1..(p - 1) :
          /\ OpensCodeBlock(o)
          /\ \A x \in (o + 1)..p : ~IsFence(x)

IsDocInput(n) == n \in 1..Len(MdSource) /\ MdSource[n] \in DocKinds
IsCodeInput(n) == n \in 1..Len(MdSource) /\ MdSource[n] \in CodeKinds
FromDoc(p) == \E n \in MdOut[p].src : IsDocInput(n)
FromCode(p) == \E n \in MdOut[p].src : IsCodeInput(n)

\* A doc run that is one `///` line with text.
SingleLineDoc(n) ==
    /\ IsDocInput(n)
    /\ MdSource[n] \notin {"moddoc_text", "doc_blank"}
    /\ ~IsDocInput(n - 1)
    /\ ~IsDocInput(n + 1)

\* A code block is open at line n: a code line precedes it, with nothing but
\* blank lines and single-line doc runs in between.
CodeOpenAt(n) ==
    \E c \in 1..(n - 1) :
        /\ IsCodeInput(c)
        /\ \A x \in (c + 1)..(n - 1) : IsDocInput(x) => SingleLineDoc(x)

InlineDocInput(n) == SingleLineDoc(n) /\ CodeOpenAt(n)

\* The output keeps the order of the input lines it is made of.
KeepsOrder ==
    \A p, q \in 1..Len(MdOut) :
        p < q => \A a \in MdOut[p].src, b \in MdOut[q].src : a < b

(***************************************************************************)
(* C24 as stated.  Doc text and code are never merged into one block:      *)
(* every output line made of doc-comment lines lies outside the fenced     *)
(* blocks built from code lines, and every code line lies inside one.      *)
(***************************************************************************)
C24_DocNeverInCode ==
    MdDone =>
        \A p \in 1..Len(MdOut) :
            /\ FromDoc(p) => ~InCodeBlock(p)
            /\ FromCode(p) => InCodeBlock(p)

(***************************************************************************)
(* C24 as amended.  A doc run that is a single `///` line with text, met   *)
(* while a code block is open, is kept inside that block as a `//`         *)
(* comment; the text of every other doc run is emitted outside the fenced  *)
(* blocks built from code lines, every code line lies inside such a block, *)
(* and the output keeps the order of the input, so that the code after a   *)
(* doc run starts a block of its own.                                      *)
(***************************************************************************)
C24_DocInCodeOnlyInline ==
    MdDone =>
        /\ \A p \in 1..Len(MdOut) :
              /\ FromDoc(p) =>
                    (InCodeBlock(p) <=>
                        \E n \in MdOut[p].src : InlineDocInput(n))
              /\ FromDoc(p) /\ InCodeBlock(p) => MdOut[p].k = "comment"
              /\ FromCode(p) => InCodeBlock(p)
        /\ KeepsOrder

\* A doc run lifted out of the code and a single doc line kept inside it.
C24_Witness ==
    /\ MdDone
    /\ \E p, q \in 1..Len(MdOut) :
          /\ MdOut[p].k = "para" /\ ~InCodeBlock(p)
          /\ MdOut[q].k = "comment" /\ InCodeBlock(q)
          /\ p < q

\* The first line of the doc run that line n belongs to.
RECURSIVE RunStart(_)
RunStart(n) == IF IsDocInput(n - 1) THEN RunStart(n - 1) ELSE n

\* Line n of the input lies inside an open doc fence: an odd number of fence
\* lines precedes it in its doc run.
InDocFence(n) ==
    /\ IsDocInput(n)
    /\ MdSource[n] \notin FenceKinds
    /\ Cardinality({x \in RunStart(n)..(n - 1) : MdSource[x] \in FenceKinds}) % 2 = 1

\* Line n of the input is part of some line of the output.
Kept(n) == \E p \in 1..Len(MdOut) : n \in MdOut[p].src

\* A doc line with something on it.
HasDocText(n) == IsDocInput(n) /\ MdSource[n] # "doc_blank"

SameBlock(p, q) ==
    /\ InsideFence(p) /\ InsideFence(q)
    /\ FencesBefore(p) = FencesBefore(q)

\* The doc run that line p of the output comes from; 0 for code.
Origin(p) ==
    IF MdOut[p].k \in {"code", "comment"} THEN 0
    ELSE RunStart(CHOOSE a \in MdOut[p].src : TRUE)

\* Lines that come from no input line (blank lines) belong to any block.
SameOrigin(p, q) ==
    \/ MdOut[p].src = {}
    \/ MdOut[q].src = {}
    \/ Origin(p) = Origin(q)

NoVersion == ""
RequestedVersion == "1.0.0"
LatestVersion == "2.0.0"

\* Ok(CargoPath::Path(..)) and the errors of ripdoc-cargo.
CargoPath(version) ==
    [ok |-> TRUE, err |-> "", message |-> "", path |-> version]
Generate(message) ==
    [ok |-> FALSE, err |-> "Generate", message |-> message, path |-> ""]
ModuleNotFound ==
    [ok |-> FALSE, err |-> "ModuleNotFound", message |-> "", path |-> ""]

Environments ==
    {e \in [cargo_home : BOOLEAN,
            registry_src : {"missing", "unreadable", "readable"},
            cached : SUBSET {RequestedVersion, LatestVersion},
            crates_io : {"ok", "not_found", "unreachable"},
            cargo_fetch : {"ok", "failed"},
            delivered : BOOLEAN] :
        e.registry_src = "missing" => e.cached = {}}

\* get_cargo_home and find_in_cargo_cache.
find_in_cargo_cache(e, version) ==
    IF ~e.cargo_home
    THEN [ok |-> FALSE, found |-> FALSE,
          error |-> Generate("Could not determine CARGO_HOME directory")]
    ELSE IF e.registry_src = "missing"
    THEN [ok |-> TRUE, found |-> FALSE, error |-> Generate("")]
    ELSE IF e.registry_src = "unreadable"
    THEN [ok |-> FALSE, found |-> FALSE, error |-> Generate("io error")]
    ELSE [ok |-> TRUE, found |-> version \in e.cached, error |-> Generate("")]

RegistryInit ==
    /\ WalkIdle
    /\ PipelineIdle
    /\ SearchIdle
    /\ request \in [version : {NoVersion, RequestedVersion}, offline : BOOLEAN]
    /\ env \in Environments
    /\ resolved_version = NoVersion
    /\ effects = <<>>
    /\ fetched = Generate("")
    /\ fetch_pc = "start"

\* fetch_registry_crate, lines 20-29: the version to look for.
ResolveVersion ==
    /\ fetch_pc = "start"
    /\ IF request.version # NoVersion
       THEN /\ resolved_version' = request.version
            /\ fetch_pc' = "lookup"
            /\ UNCHANGED <<effects, fetched>>
       ELSE IF request.offline
       THEN /\ fetched' = Generate("requires an explicit version when running offline")
            /\ fetch_pc' = "done"
            /\ UNCHANGED <<effects, resolved_version>>
       ELSE /\ effects' = Append(effects, "crates.io")
            /\ IF env.crates_io = "ok"
               THEN /\ resolved_version' = LatestVersion
                    /\ fetch_pc' = "lookup"
                    /\ fetched' = fetched
               ELSE /\ fetched' = IF env.crates_io = "not_found" THEN ModuleNotFound
                                  ELSE Generate("Failed to reach crates.io")
                    /\ fetch_pc' = "done"
                    /\ resolved_version' = resolved_version
    /\ UNCHANGED <<walk, pipeline, searching, request, env>>

\* Variant of the cache lookup that goes on to download when offline.
LookupCache_downloads ==
    /\ fetch_pc = "lookup"
    /\ LET r == find_in_cargo_cache(env, resolved_version)
       IN  IF ~r.ok
           THEN fetched' = r.error /\ fetch_pc' = "done"
           ELSE IF r.found
           THEN fetched' = CargoPath(resolved_version) /\ fetch_pc' = "done"
           ELSE fetched' = fetched /\ fetch_pc' = "fetch"
    /\ UNCHANGED <<walk, pipeline, searching, request, env, resolved_version,
                   effects>>

\* fetch_registry_crate, lines 32-41: the cache, then the offline exit.
LookupCache ==
    /\ fetch_pc = "lookup"
    /\ LET r == find_in_cargo_cache(env, resolved_version)
       IN  IF ~r.ok
           THEN fetched' = r.error /\ fetch_pc' = "done"
           ELSE IF r.found
           THEN fetched' = CargoPath(resolved_version) /\ fetch_pc' = "done"
           ELSE IF request.offline
           THEN /\ fetched' = Generate("is not cached locally for offline use")
                /\ fetch_pc' = "done"
           ELSE fetched' = fetched /\ fetch_pc' = "fetch"
    /\ UNCHANGED <<walk, pipeline, searching, request, env, resolved_version,
                   effects>>

\* fetch_with_cargo: run `cargo fetch`.
FetchWithCargo ==
    /\ fetch_pc = "fetch"
    /\ effects' = Append(effects, "cargo fetch")
    /\ IF env.cargo_fetch = "ok"
       THEN /\ env' = [env EXCEPT !.cached =
                          IF env.delivered /\ env.registry_src # "missing"
                          THEN @ \cup {resolved_version} ELSE @]
            /\ fetch_pc' = "relookup"
            /\ fetched' = fetched
       ELSE /\ fetched' = Generate("cargo fetch failed")
            /\ fetch_pc' = "done"
            /\ env' = env
    /\ UNCHANGED <<walk, pipeline, searching, request, resolved_version>>

\* fetch_registry_crate, lines 47-53: the cache once more.
LookupAgain ==
    /\ fetch_pc = "relookup"
    /\ LET r == find_in_cargo_cache(env, resolved_version)
       IN  fetched' = IF ~r.ok THEN r.error
                      ELSE IF r.found THEN CargoPath(resolved_version)
                      ELSE Generate("Failed to locate in cargo cache after download")
    /\ fetch_pc' = "done"
    /\ UNCHANGED <<walk, pipeline, searching, request, env, resolved_version,
                   effects>>

RegistryNext ==
    \/ ResolveVersion
    \/ LookupCache
    \/ FetchWithCargo
    \/ LookupAgain

RegistrySpec == RegistryInit /\ [][RegistryNext]_vars

\* The crate of the requested version lies in the registry cache.
CachedLocally == request.version \in env.cached

(***************************************************************************)
(* C27 as stated.  With offline = true, fetch_registry_crate never queries *)
(* crates.io and never runs cargo fetch; without a version it fails with   *)
(* the explicit-version error; with a version it returns the cached crate  *)
(* if present and otherwise fails with the not-cached error.               *)
(***************************************************************************)
C27_OfflineOutcomes ==
    request.offline =>
        /\ effects = <<>>
        /\ fetch_pc = "done" =>
              IF request.version = NoVersion
              THEN fetched = Generate("requires an explicit version when running offline")
              ELSE IF CachedLocally
              THEN fetched = CargoPath(request.version)
              ELSE fetched = Generate("is not cached locally for offline use")

(***************************************************************************)
(* C27 as amended.  With offline = true, fetch_registry_crate never        *)
(* queries crates.io and never runs cargo fetch; without a version it      *)
(* fails with the explicit-version error; with a version it fails with the *)
(* error of the cache lookup when no cargo home can be determined or the   *)
(* registry directory cannot be read, and otherwise returns the cached     *)
(* crate if present and fails with the not-cached error if not.            *)
(***************************************************************************)
C27_OfflineOutcomesOrLookupError ==
    request.offline =>
        /\ effects = <<>>
        /\ fetch_pc = "done" =>
              IF request.version = NoVersion
              THEN fetched = Generate("requires an explicit version when running offline")
              ELSE IF ~env.cargo_home
              THEN fetched = Generate("Could not determine CARGO_HOME directory")
              ELSE IF env.registry_src = "unreadable"
              THEN fetched = Generate("io error")
              ELSE IF CachedLocally
              THEN fetched = CargoPath(request.version)
              ELSE fetched = Generate("is not cached locally for offline use")

\* An offline call with a version that ended with the not-cached error while
\* crates.io and cargo were both able to deliver.
C27_Witness ==
    /\ fetch_pc = "done"
    /\ request.offline
    /\ request.version = RequestedVersion
    /\ env.cargo_home /\ env.registry_src = "readable"
    /\ env.crates_io = "ok" /\ env.cargo_fetch = "ok" /\ env.delivered
    /\ ~CachedLocally
    /\ fetched = Generate("is not cached locally for offline use")

(***************************************************************************)
(* Vocabulary of C29: the item that the next step of the walk hands to     *)
(* render_item or render_impl_item, the path prefix it is handed with, and *)
(* whether it gets past the selection gate of that function.               *)
(***************************************************************************)
Visit(id, prefix, gate) == [id |-> id, prefix |-> prefix, gate |-> gate]

PendingVisit ==
    IF pc = "ready"
    THEN IF InIndex(Root)
         THEN <<Visit(Root, <<>>, selection_context_contains(Root))>>
         ELSE <<>>
    ELSE IF ~Walking THEN <<>>
    ELSE IF Top.fn = "render_module" /\ Top.idx <= Len(Index[Top.id].items)
            /\ InIndex(Index[Top.id].items[Top.idx])
    THEN <<Visit(Index[Top.id].items[Top.idx], Top.prefix,
                 selection_context_contains(Index[Top.id].items[Top.idx]))>>
    ELSE IF Top.fn = "render_use" /\ Top.idx <= Len(Top.targets)
            /\ InIndex(Top.targets[Top.idx])
    THEN <<Visit(Top.targets[Top.idx], Top.prefix,
                 selection_context_contains(Top.targets[Top.idx]))>>
    ELSE IF Top.fn = "render_impl" /\ Top.idx <= Len(Index[Top.id].items)
            /\ InIndex(Index[Top.id].items[Top.idx])
    THEN LET item_id == Index[Top.id].items[Top.idx]
             expand == expand_children(Top.id)
             in_context == selection_context_contains(item_id)
         IN  IF (~config.selection.some \/ expand \/ in_context)
                /\ (Index[Top.id].trait_.some \/ is_visible(item_id))
             THEN <<Visit(item_id, Top.prefix, expand \/ in_context)>>
             ELSE <<>>
    ELSE <<>>

\* The filter classifies the visited item as Hit.
ClassifiedHit(v) ==
    /\ config.filter # <<>>
    /\ v.id # Root
    /\ filter_match(v.prefix, v.id) = "Hit"

HitVisited == \E n \in 1..Len(PendingVisit) :
                  PendingVisit[n].gate /\ ClassifiedHit(PendingVisit[n])

(***************************************************************************)
(* C29.  In every render call the filter-matched flag starts false; it     *)
(* becomes true at the step, and only at the step, that visits an item     *)
(* classified Hit which got past the selection gate (whatever the          *)
(* visibility gate says afterwards), and it stays true to the end of the   *)
(* call; a later call on the same Renderer starts with the flag false      *)
(* again.                                                                  *)
(***************************************************************************)
C29_FilterMatchedFlag ==
    /\ [](pc = "ready" => ~filter_matched)
    /\ [][pc # "done" =>
            (filter_matched' <=> (filter_matched \/ HitVisited))]_vars

\* The second call on a Renderer has ended with the flag set by an item
\* inside a private module while private items are not rendered, so that
\* nothing of the item is in the output.
C29_Witness ==
    /\ Done
    /\ calls = 2
    /\ crate_data.name = "imports"
    /\ config.filter = <<"hidden", "Bar">>
    /\ ~config.selection.some
    /\ ~config.render_private_items
    /\ filter_matched
    /\ result.ok
    /\ \A id \in Ids \ {Root} : ~Declared(result.text, id)

(***************************************************************************)
(* C30.  render_struct never emits a type's doc comment or derive          *)
(* annotation without that type's declaration: in the text of a finished   *)
(* call, every doc or derive token of a struct (a tuple struct whose       *)
(* declaration is withheld included) comes with the declaration of the     *)
(* same struct, which follows it before any token of another item.         *)
(***************************************************************************)
IsStructAnnotation(tok) ==
    /\ tok.t \in {"doc", "derive"}
    /\ InIndex(tok.id)
    /\ Index[tok.id].kind = "Struct"

C30_AnnotationsComeWithDeclaration ==
    (Done /\ result.ok) =>
        \A i \in 1..Len(result.text) :
            IsStructAnnotation(result.text[i]) =>
                \E j \in (i + 1)..Len(result.text) :
                    /\ result.text[j].id = result.text[i].id
                    /\ result.text[j].t \in {"decl", "open"}
                    /\ \A n \in i..j : result.text[n].id = result.text[i].id

====
